---- MODULE Spec2Model ----
(***************************************************************************)
(* State-machine model of the siril-scripts pipeline drivers               *)
(* GPS_Preprocess.py, GPS_Process.py and GPS_Postprocess.py.               *)
(*                                                                         *)
(* Text that the scripts build (file names, command operands) is kept as   *)
(* a "dotted string": the sequence of the segments between the '.'         *)
(* characters, each segment a string.  "m31_b0.5.fit" is                   *)
(* <<"m31_b0", "5", "fit">>.  Concatenation, rsplit('.', 1), splitext and  *)
(* endswith('.ext') are exact on this representation.                      *)
(***************************************************************************)
EXTENDS Integers, Sequences, FiniteSets, TLC

VARIABLES
    script,     \* which script this behaviour runs: "pre", "proc", "post", "names"
    pc,         \* position of the script in its main logic
    run,        \* 1 for the first invocation of the script, 2 for a re-invocation
    args,       \* the parsed argparse namespace
    log,        \* every host command / subprocess issued so far, in order
    entries,    \* GPS_Preprocess: one record per stage function entered
    markers,    \* GPS_Preprocess: session -> files present in <session>/process
    frames,     \* GPS_Preprocess: session -> pp_light_NNNNN.fit files (digit tuples)
    sess,       \* GPS_Preprocess: the loop variable w of the multi-session loop
    nextv,      \* GPS_Preprocess: the local 'next' (0 while unbound)
    nlights,    \* GPS_Preprocess: session -> number of subs in <session>/lights
    object,     \* GPS_Preprocess: OBJECT of the FITS header read by stack ("" if none)
    renames,    \* GPS_Preprocess: os.rename calls of the merge, in order
    argv,       \* GPS_Process / GPS_Postprocess: the command line, option by option
    wd,         \* files in the working directory
    ccin,       \* files in the Cosmic Clarity input directory
    ccout,      \* files in the Cosmic Clarity output directory
    processed,  \* GPS_Process: processed_images
    originals,  \* GPS_Process: original_images
    inv,        \* index into the parameter list of the stage at pc
    phase,      \* "call", or "loop" inside the file loop of a Cosmic Clarity stage
    todo,       \* the part of the os.listdir() result the file loop has not reached
    compress,   \* siril's compression setting
    pdirs,      \* GPS_Process: index k -> files in processed_k, for the existing k
    conf,       \* the configuration files sirilcc_*.conf that exist
    workdir,    \* the -d operand: "absolute", "relative", "unbound" before it is assigned
    cwd,        \* the current directory of the process
    form,       \* GPS_Process: the values of the dialog (<<>> on the command line)
    fault,      \* the host call that raises an error: "connect", or the verb of a command
    console,    \* what the script has printed, in order
    names,      \* the inputs and results of the file-name functions
    child,      \* the subprocess of the stage: "none", "running", "closed", "exited"
    pipe,       \* lines the subprocess has written that the script has not read yet
    emitted,    \* every line the subprocesses have written, in order
    callbacks,  \* the siril.update_progress / siril.log calls of the read loop
    gui,        \* the script was started without arguments: run_gui calls main_logic
    boxes       \* the message boxes shown, in order, each with the run that showed it

preVars == <<markers, frames, sess, nextv, nlights, object, renames>>
enhVars == <<argv, wd, ccin, ccout, processed, originals, inv, phase, todo, compress, pdirs,
             conf, workdir, cwd, form>>
ioVars == <<child, pipe, emitted, callbacks>>
vars == <<script, pc, run, args, log, entries, fault, console, preVars, enhVars, names,
          ioVars, gui, boxes>>

----------------------------------------------------------------------------
(* Bounds of the model.                                                    *)
MaxSessions == 2
MaxFrames == 2
MaxInitMarkers == 1

----------------------------------------------------------------------------
(* Dotted strings.                                                         *)
Empty == <<"">>

Cat(a, b) == SubSeq(a, 1, Len(a) - 1) \o <<a[Len(a)] \o b[1]>> \o Tail(b)

RECURSIVE CatAll(_)
CatAll(ss) == IF ss = <<>> THEN Empty ELSE Cat(Head(ss), CatAll(Tail(ss)))

Perms(S) == {f \in [1..Cardinality(S) -> S] : \A x \in S : \E i \in DOMAIN f : f[i] = x}

ErrorBox == "An error occurred during processing."

SuccessBox == "Processing finished."

\* The except clause of main_logic shows the error box when a QApplication
\* exists, which is when run_gui has created it.
ExceptBox ==
    boxes' = IF gui THEN Append(boxes, [run |-> run, text |-> ErrorBox]) ELSE boxes

\* The value of the variables a script does not use.
StreamIdle == child = "none" /\ pipe = <<>> /\ emitted = <<>> /\ callbacks = <<>>

EnhIdle ==
    /\ argv = <<>> /\ wd = {} /\ ccin = {} /\ ccout = {} /\ processed = {}
    /\ originals = {} /\ inv = 0 /\ phase = "call" /\ todo = <<>>
    /\ compress = FALSE /\ pdirs = <<>>
    /\ conf = {} /\ workdir = "absolute" /\ cwd = "launch" /\ form = <<>>

\* The calls of the setup block that can raise: siril.connect() and the
\* version handshake siril.cmd("requires", "1.3.6").
\* The host call that raises: siril.connect(), or the first siril.cmd with
\* the verb named; "none" when every call succeeds.
SetupFaults == {"connect", "requires", "cd", "set32bits", "setext"}

StageFaults(sc) == IF sc = "pre" THEN {"calibrate", "seqapplyreg"} ELSE {"save", "rl"}

Faults(sc) == {"none"} \cup SetupFaults \cup StageFaults(sc)

\* Number of setup commands sent when the call named by f raises; the
\* command that raises has been sent.
SetupSent(f) ==
    CASE f = "connect" -> 0
      [] f = "requires" -> 1
      [] f = "cd" -> 2
      [] f = "set32bits" -> 3
      [] OTHER -> 4

\* print("\n**** ERROR *** " + str(e) + "\n") of the except clause.
ErrorReport == "**** ERROR ***"

\* The place in the commands cs of the one that raises, 0 when none does.
FailIdx(cs) ==
    LET hit == {i \in DOMAIN cs : cs[i].verb = fault} IN
    IF hit = {} THEN 0 ELSE CHOOSE i \in hit : \A j \in hit : i <= j

Fails(cs) == FailIdx(cs) # 0

\* The commands of cs that are sent, and those that return.
Sent(cs) == IF Fails(cs) THEN SubSeq(cs, 1, FailIdx(cs)) ELSE cs

Returned(cs) == IF Fails(cs) THEN SubSeq(cs, 1, FailIdx(cs) - 1) ELSE cs

----------------------------------------------------------------------------
(* GPS_Preprocess.py                                                       *)

Sessions == 0..(MaxSessions - 1)

MarkerNames ==
    {"bias_stacked.fit", "bias_stacked.fit.fz", "pp_flat_stacked.fit",
     "pp_flat_stacked.fit.fz", "dark_stacked.fit", "dark_stacked.fit.fz",
     "pp_light_.seq", "bkg_pp_light_.seq", "r_bkg_pp_light_.seq", "r_pp_light_.seq"}

\* f"{next:05}" and int(pp.split('_')[-1].split('.')[0]) on the frame index.
Fmt05(n) == [i \in 1..5 |-> (n \div (10 ^ (5 - i))) % 10]

ParseIdx(d) == d[1] * 10000 + d[2] * 1000 + d[3] * 100 + d[4] * 10 + d[5]

\* The paths whose existence makes a stage function return at once.
SkipMarkersMutBkg(st, a) ==
    CASE st = "master_bias" -> {"bias_stacked.fit", "bias_stacked.fit.fz"}
      [] st = "master_flat" -> {"pp_flat_stacked.fit", "pp_flat_stacked.fit.fz"}
      [] st = "master_dark" -> {"dark_stacked.fit", "dark_stacked.fit.fz"}
      [] st = "light" -> {"pp_light_.seq"}
      [] st = "light_nc" -> {"pp_light_.seq"}
      [] st = "bkg_extract" -> {"bkg_pp_light_.seq"}
      [] st = "platesolve" -> {"r_pp_light_.seq"}
      [] OTHER -> {}

SkipMarkersMutLight(st, a) ==
    CASE st = "master_bias" -> {"bias_stacked.fit", "bias_stacked.fit.fz"}
      [] st = "master_flat" -> {"pp_flat_stacked.fit", "pp_flat_stacked.fit.fz"}
      [] st = "master_dark" -> {"dark_stacked.fit", "dark_stacked.fit.fz"}
      [] st = "light" -> {}
      [] st = "light_nc" -> {"pp_light_.seq"}
      [] st = "bkg_extract" -> {"bkg_pp_light_.seq"}
      [] st = "platesolve" ->
            IF a.bkg THEN {"r_bkg_pp_light_.seq"} ELSE {"r_pp_light_.seq"}
      [] OTHER -> {}

SkipMarkers(st, a) ==
    CASE st = "master_bias" -> {"bias_stacked.fit", "bias_stacked.fit.fz"}
      [] st = "master_flat" -> {"pp_flat_stacked.fit", "pp_flat_stacked.fit.fz"}
      [] st = "master_dark" -> {"dark_stacked.fit", "dark_stacked.fit.fz"}
      [] st = "light" -> {"pp_light_.seq"}
      [] st = "light_nc" -> {"pp_light_.seq"}
      [] st = "bkg_extract" -> {"bkg_pp_light_.seq"}
      [] st = "platesolve" ->
            IF a.bkg THEN {"r_bkg_pp_light_.seq"} ELSE {"r_pp_light_.seq"}
      [] OTHER -> {}

\* light_seq as main_logic sets it before platesolve, register and stack.
LightSeq(a) == IF a.bkg THEN "bkg_pp_light" ELSE "pp_light"

\* The siril.cmd calls of a stage function, as <<verb, operand>> pairs.
StageCmds(st, a) ==
    CASE st = "master_bias" ->
            <<<<"cd", "biases">>, <<"convert", "bias">>, <<"cd", "process">>,
              <<"stack", "bias">>>>
      [] st = "master_flat" ->
            <<<<"cd", "flats">>, <<"convert", "flat">>, <<"cd", "process">>,
              <<"calibrate", "flat">>, <<"stack", "pp_flat">>>>
      [] st = "master_dark" ->
            <<<<"cd", "darks">>, <<"convert", "dark">>, <<"cd", "process">>,
              <<"stack", "dark">>>>
      [] st = "light" ->
            <<<<"cd", "lights">>, <<"convert", "light">>, <<"cd", "process">>,
              <<"calibrate", "light">>>>
      [] st = "light_nc" ->
            <<<<"cd", "lights">>, <<"convert", "pp_light">>>>
      [] st = "bkg_extract" ->
            <<<<"cd", "process">>, <<"seqsubsky", "pp_light">>>>
      [] st = "platesolve" ->
            <<<<"cd", "process">>,
              <<"seqplatesolve",
                LightSeq(a) \o (IF a.ps = "true" THEN "  " ELSE " -focal=" \o a.ps)>>>>
      [] st = "register" ->
            IF a.ps # "none"
            THEN <<<<"cd", "process">>, <<"seqapplyreg", LightSeq(a)>>>>
            ELSE <<<<"cd", "process">>, <<"register", LightSeq(a)>>,
                   <<"seqapplyreg", LightSeq(a)>>>>
      [] st = "stack" ->
            <<<<"cd", "process">>, <<"load", "pp_light_00001">>,
              <<"stack", "r_" \o LightSeq(a)>>, <<"close", "">>>>
      [] st = "setup" ->
            <<<<"requires", "1.3.6">>, <<"cd", "workdir">>, <<"set32bits", "">>,
              <<"setext", "fit">>>>
      [] st = "finish" -> <<<<"cd", "workdir">>>>
      [] OTHER -> <<>>

\* What the host leaves in the process directory when the stage's commands
\* succeed: the master, or the .seq file of the sequence the command writes.
HostOutput(st, a) ==
    CASE st = "master_bias" -> {"bias_stacked.fit"}
      [] st = "master_flat" -> {"pp_flat_stacked.fit"}
      [] st = "master_dark" -> {"dark_stacked.fit"}
      [] st = "light" -> {"pp_light_.seq"}
      [] st = "light_nc" -> {"pp_light_.seq"}
      [] st = "bkg_extract" -> {"bkg_pp_light_.seq"}
      [] st = "register" -> {"r_" \o LightSeq(a) \o "_.seq"}
      [] OTHER -> {}

\* bkg, stars, roundf, wfwhm, drizzle_scale, feather as main_logic derives them.
Opt(v, default) == IF v = <<>> THEN default ELSE v[1]

Settings(a) ==
    [bkg |-> Opt(a.background, <<"100%">>),
     stars |-> Opt(a.stars, <<"100%">>),
     roundf |-> Opt(a.round, <<"100%">>),
     wfwhm |-> Opt(a.wfwhm, <<"100%">>),
     drizzle_scale |-> Opt(a.drizzle, <<"0">>),
     feather |-> Opt(a.feather, <<"0">>)]

\* The -out= operand of the final stack command.
StackOut(obj, a) ==
    LET s == Settings(a) IN
    CatAll(<<<<"", "", "/">>, obj, <<"_b">>, s.bkg, <<"-s">>, s.stars, <<"-r">>,
             s.roundf, <<"-w">>, s.wfwhm, <<"-z">>, s.drizzle_scale, <<"-f">>,
             s.feather, <<"-$LIVETIME:%d$s">>>>)


\* The argparse namespaces the behaviours start from.  -b/-s/-r/-w/-z/-f hold
\* <<>> when absent and <<value>> when given (nargs='+', first value used).
NoValues ==
    [background |-> <<>>, stars |-> <<>>, round |-> <<>>, wfwhm |-> <<>>,
     drizzle |-> <<>>, feather |-> <<>>]

SomeValues ==
    [background |-> <<<<"95%">>>>, stars |-> <<>>, round |-> <<<<"85%">>>>,
     wfwhm |-> <<>>, drizzle |-> <<<<"1", "5">>>>, feather |-> <<<<"5">>>>]

Flags == [nc : BOOLEAN, multi : 0..MaxSessions, bkg : BOOLEAN, ps : {"none", "true", "530"}]

Namespace(f, v) ==
    [nc |-> f.nc, multi |-> f.multi, bkg |-> f.bkg, ps |-> f.ps,
     background |-> v.background, stars |-> v.stars, round |-> v.round,
     wfwhm |-> v.wfwhm, drizzle |-> v.drizzle, feather |-> v.feather]

PreArgs == {Namespace(f, SomeValues) : f \in {g \in Flags : g.nc => g.multi = 0}}

\* The sessions main_logic works on: args.multi_session, else the one workdir.
MultiMode(a) == ~a.nc /\ a.multi > 0

UsedSessions(a) == IF MultiMode(a) THEN 0..(a.multi - 1) ELSE {0}

RECURSIVE UpTo(_, _)
UpTo(S, k) ==
    IF k = 0 THEN {{}}
    ELSE UpTo(S, k - 1) \cup {T \cup {x} : T \in UpTo(S, k - 1), x \in S}

\* At most MaxInitMarkers files lie in the process directories at the start.
InitMarkerSets(a) ==
    {[w \in Sessions |-> {p[2] : p \in {q \in P : q[1] = w}}] :
        P \in UpTo(UsedSessions(a) \X MarkerNames, MaxInitMarkers)}

FrameFiles(n) == {Fmt05(i) : i \in 1..n}

ObjectNames == {Empty, <<"M31">>}

InitPre ==
    /\ script = "pre"
    /\ pc = "setup"
    /\ run = 1
    /\ args \in PreArgs
    /\ \/ \* process directories that already hold files; one sub per session
          /\ markers \in InitMarkerSets(args)
          /\ nlights = [w \in Sessions |-> 1]
          /\ object \in (IF args.multi = 0 THEN ObjectNames ELSE {<<"M31">>})
       \/ \* fresh process directories; sessions of several subs
          /\ markers = [w \in Sessions |-> {}]
          /\ nlights \in [Sessions -> 1..MaxFrames]
          /\ \A w \in Sessions \ UsedSessions(args) : nlights[w] = 1
          /\ ~args.bkg /\ args.ps = "none"
          /\ object = <<"M31">>
    /\ \E n0 \in 0..MaxFrames :
          frames = [w \in Sessions |->
                      IF "pp_light_.seq" \in markers[w] THEN FrameFiles(n0) ELSE {}]
    /\ fault \in Faults(script)
    /\ StreamIdle
    /\ gui \in BOOLEAN /\ boxes = <<>>
    /\ console = <<>>
    /\ log = <<>>
    /\ entries = <<>>
    /\ sess = 0
    /\ nextv = 0
    /\ renames = <<>>
    /\ EnhIdle
    /\ names = <<>>

Issue(st, w, cs, out) ==
    [i \in 1..Len(cs) |->
        [st |-> st, w |-> w, run |-> run, verb |-> cs[i][1], arg |-> cs[i][2],
         out |-> IF st = "stack" /\ cs[i][1] = "stack" THEN out ELSE Empty]]

\* Control flow of main_logic between the stage calls.
AfterCalib(a) ==
    IF a.bkg THEN "bkg_extract" ELSE IF a.ps # "none" THEN "platesolve" ELSE "register"

AfterBkgMutSkipsRegister(a) == "stack"

AfterBkg(a) == IF a.ps # "none" THEN "platesolve" ELSE "register"

AfterSetup(a) ==
    IF a.nc THEN "light_nc" ELSE IF a.multi > 0 THEN "checkdirs" ELSE "master_bias"

NextSession(a, w) ==
    IF w + 1 < a.multi THEN <<"master_bias", w + 1>> ELSE <<AfterCalib(a), 0>>

AfterLight(a, w) ==
    IF MultiMode(a)
    THEN IF w > 0 THEN <<"merge", w>> ELSE NextSession(a, w)
    ELSE <<AfterCalib(a), w>>

\* One stage function with a completion marker: return at once when the marker
\* exists, else issue the stage's commands, after which the host has written
\* the stage's output.
\* A command of stage function st raises: the stage is not skipped and
\* sends the command the host fails on.
StageFails(st) ==
    /\ (SkipMarkers(st, args) \cap markers[sess]) = {}
    /\ Fails(Issue(st, sess, StageCmds(st, args), Empty))

\* Where main_logic goes after stage st: on to target, or into the except
\* clause when a command of the stage raised.
Then(st, target) == IF StageFails(st) THEN "error" ELSE target

Report(st) ==
    IF StageFails(st)
    THEN console' = Append(console, ErrorReport) /\ ExceptBox
    ELSE UNCHANGED <<console, boxes>>

MarkedStage(st) ==
    LET skip == (SkipMarkers(st, args) \cap markers[sess]) # {} IN
    /\ script = "pre"
    /\ pc = st
    /\ entries' = Append(entries, [st |-> st, w |-> sess, run |-> run,
                                   before |-> markers[sess]])
    /\ log' = IF skip THEN log
              ELSE log \o Sent(Issue(st, sess, StageCmds(st, args), Empty))
    /\ markers' = IF skip \/ StageFails(st) THEN markers
                  ELSE [markers EXCEPT ![sess] = @ \cup HostOutput(st, args)]
    /\ Report(st)
    /\ UNCHANGED <<enhVars, names, fault, gui, ioVars, script, run, args, nextv, nlights, object,
                   renames>>

\* The try block up to the stage calls: connect, handshake, session options.
\* A call that raises ends the run in the except clause.
PreSetup ==
    /\ script = "pre"
    /\ pc = "setup"
    /\ log' = log \o SubSeq(Issue("setup", sess, StageCmds("setup", args), Empty),
                             1, SetupSent(fault))
    /\ pc' = IF fault \notin SetupFaults THEN AfterSetup(args) ELSE "error"
    /\ IF fault \notin SetupFaults
       THEN UNCHANGED <<console, boxes>>
       ELSE console' = Append(console, ErrorReport) /\ ExceptBox
    /\ UNCHANGED <<enhVars, names, fault, gui, ioVars, script, run, args, entries, preVars>>

CheckDirs ==
    /\ script = "pre"
    /\ pc = "checkdirs"
    /\ \E allExist \in BOOLEAN :
          /\ pc' = IF allExist THEN "master_bias" ELSE "exit"
          /\ console' = IF allExist THEN console ELSE Append(console, "Directory not found")
          /\ UNCHANGED boxes
    /\ UNCHANGED <<enhVars, names, fault, gui, ioVars, script, run, args, log, entries, preVars>>

MasterBias ==
    /\ MarkedStage("master_bias")
    /\ pc' = Then("master_bias", "master_flat")
    /\ UNCHANGED <<frames, sess>>

MasterFlat ==
    /\ MarkedStage("master_flat")
    /\ pc' = Then("master_flat", "master_dark")
    /\ UNCHANGED <<frames, sess>>

MasterDark ==
    /\ MarkedStage("master_dark")
    /\ pc' = Then("master_dark", "light")
    /\ UNCHANGED <<frames, sess>>

\* calibrate / convert write one pp_light frame per light sub of the session.
WriteFrames(st) ==
    IF (SkipMarkers(st, args) \cap markers[sess]) # {} \/ StageFails(st)
    THEN UNCHANGED frames
    ELSE frames' = [frames EXCEPT ![sess] = @ \cup FrameFiles(nlights[sess])]

Light ==
    /\ MarkedStage("light")
    /\ WriteFrames("light")
    /\ pc' = Then("light", AfterLight(args, sess)[1])
    /\ sess' = IF StageFails("light") THEN sess ELSE AfterLight(args, sess)[2]

LightNc ==
    /\ MarkedStage("light_nc")
    /\ WriteFrames("light_nc")
    /\ pc' = Then("light_nc", AfterCalib(args))
    /\ UNCHANGED sess

\* The renames of the second listing loop: the files of session w, in listing
\* order, take the indices n, n+1, ... in the first session's process directory.
RECURSIVE RenameAll(_, _, _, _)
RenameAll(order, n, dst, w) ==
    IF order = <<>> THEN <<>>
    ELSE <<[w |-> w, old |-> Head(order), new |-> Fmt05(n), dstBefore |-> dst]>>
         \o RenameAll(Tail(order), n + 1, dst \cup {Fmt05(n)}, w)

\* os.listdir returns the directory in any order.  The first listing loop
\* only overwrites 'next', so of its order only the file listed last matters.
RECURSIVE SeqOf(_)
SeqOf(S) == IF S = {} THEN <<>> ELSE LET x == CHOOSE y \in S : TRUE IN <<x>> \o SeqOf(S \ {x})

ListingsOf(S) == {SeqOf(S \ {last}) \o <<last>> : last \in S}

\* next after the first listing loop: the index of the file listed last.
NextFrom(listing) == ParseIdx(listing[Len(listing)])

Merge ==
    /\ script = "pre"
    /\ pc = "merge"
    /\ IF frames[0] = {} /\ nextv = 0
       THEN \* next += 1 on an unbound local: UnboundLocalError, caught by except
            /\ pc' = "error"
            /\ console' = Append(console, ErrorReport)
            /\ ExceptBox
            /\ UNCHANGED <<frames, sess, nextv, renames>>
       ELSE \E first \in (IF frames[0] = {} THEN {<<>>} ELSE ListingsOf(frames[0])),
               order \in Perms(frames[sess]) :
              LET n == (IF first = <<>> THEN nextv ELSE NextFrom(first)) + 1
                  rs == RenameAll(order, n, frames[0], sess)
              IN /\ renames' = renames \o rs
                 /\ frames' = [frames EXCEPT
                                 ![sess] = {},
                                 ![0] = @ \cup {rs[i].new : i \in DOMAIN rs}]
                 /\ nextv' = n + Len(order)
                 /\ pc' = NextSession(args, sess)[1]
                 /\ sess' = NextSession(args, sess)[2]
                 /\ UNCHANGED <<console, boxes>>
    /\ UNCHANGED <<enhVars, names, fault, gui, ioVars, script, run, args, log, entries, markers,
                   nlights, object>>

BkgExtract ==
    /\ MarkedStage("bkg_extract")
    /\ pc' = Then("bkg_extract", AfterBkg(args))
    /\ UNCHANGED <<frames, sess>>

Platesolve ==
    /\ MarkedStage("platesolve")
    /\ pc' = Then("platesolve", "register")
    /\ UNCHANGED <<frames, sess>>

\* register and stack check no marker.
Register ==
    /\ script = "pre"
    /\ pc = "register"
    /\ log' = log \o Sent(Issue("register", sess, StageCmds("register", args), Empty))
    /\ markers' = IF StageFails("register") THEN markers
                  ELSE [markers EXCEPT ![sess] = @ \cup HostOutput("register", args)]
    /\ pc' = Then("register", "stack")
    /\ Report("register")
    /\ UNCHANGED <<enhVars, names, fault, gui, ioVars, script, run, args, entries, frames, sess,
                   nextv, nlights, object, renames>>

Stack ==
    /\ script = "pre"
    /\ pc = "stack"
    /\ log' = log \o Sent(Issue("stack", sess, StageCmds("stack", args),
                                 StackOut(object, args)))
    /\ pc' = Then("stack", "finish")
    /\ Report("stack")
    /\ UNCHANGED <<enhVars, names, fault, gui, ioVars, script, run, args, entries, preVars>>

PreFinish ==
    /\ script = "pre"
    /\ pc = "finish"
    /\ log' = log \o Sent(Issue("finish", sess, StageCmds("finish", args), Empty))
    /\ pc' = Then("finish", "done")
    /\ Report("finish")
    /\ UNCHANGED <<enhVars, names, fault, gui, ioVars, script, run, args, entries, preVars>>

\* The same command line is run again on the directories the first run left.
PreRerun ==
    /\ script = "pre"
    /\ pc = "done"
    /\ run = 1
    /\ run' = 2
    /\ pc' = "setup"
    /\ sess' = 0
    /\ nextv' = 0
    /\ UNCHANGED <<enhVars, names, fault, gui, ioVars, console, boxes, script, args, log, entries, markers, frames,
                   nlights, object, renames>>

\* run_gui of GPS_Preprocess and GPS_Process after main_logic has returned,
\* from the end of its try block or from its except clause: the box
\* "Processing finished.".  sys.exit ends the script inside main_logic.
RunGuiReturns ==
    /\ script \in {"pre", "proc"}
    /\ gui
    /\ pc \in {"done", "error"}
    /\ \A i \in DOMAIN boxes : ~(boxes[i].run = run /\ boxes[i].text = SuccessBox)
    /\ boxes' = Append(boxes, [run |-> run, text |-> SuccessBox])
    /\ UNCHANGED <<script, pc, run, args, log, entries, fault, gui, console, preVars, enhVars,
                   names, ioVars>>

NextPre ==
    \/ PreSetup
    \/ CheckDirs
    \/ MasterBias
    \/ MasterFlat
    \/ MasterDark
    \/ Light
    \/ LightNc
    \/ Merge
    \/ BkgExtract
    \/ Platesolve
    \/ Register
    \/ Stack
    \/ PreFinish
    \/ PreRerun
    \/ RunGuiReturns

SpecPre == InitPre /\ [][NextPre]_vars

----------------------------------------------------------------------------
(* File names and host commands of GPS_Process.py and GPS_Postprocess.py   *)

Last(s) == s[Len(s)]

\* image.endswith(('.fits', '.fit', '.fts', '.fz'))
IsImage(f) == Len(f) >= 2 /\ Last(f) \in {"fits", "fit", "fts", "fz"}

\* image.endswith(".fits") or image.endswith(".fit")
IsPostImage(f) == Len(f) >= 2 /\ Last(f) \in {"fits", "fit"}

\* image.rsplit('.', 1)[0]
RSplit0(f) == IF Len(f) >= 2 THEN SubSeq(f, 1, Len(f) - 1) ELSE f

\* os.path.splitext(image)[0]: a name whose only dot is the leading one has no extension
SplitExt0(f) ==
    IF Len(f) >= 3 \/ (Len(f) = 2 /\ f[1] # "") THEN SubSeq(f, 1, Len(f) - 1) ELSE f

\* sharpenSA_mode.rsplit( )[0]: the first word of the mode
FirstWord(mode) ==
    CASE mode = <<"Stellar Only">> -> <<"Stellar">>
      [] mode = <<"Non-Stellar Only">> -> <<"Non-Stellar">>
      [] OTHER -> mode

\* Number of values main_logic reads from a parameter tuple n of a stage.
Arity(st, n) ==
    CASE st \in {"abe", "denoise_SA", "statstretch"} -> 3
      [] st \in {"bkg", "bkg_GraX", "denoise_GraX"} -> 1
      [] st \in {"denoise_CC", "sharpen_GraX"} -> 2
      [] st = "sharpen_CC" ->
            IF n = <<>> THEN 1
            ELSE IF n[1] = <<"Both">> THEN 4
            ELSE IF n[1] = <<"Non-Stellar Only">> THEN 3
            ELSE IF n[1] = <<"Stellar Only">> THEN 2 ELSE 1
      [] st = "sharpen_SA" ->
            IF n = <<>> THEN 1
            ELSE IF n[1] = <<"Both">> THEN 3
            ELSE IF n[1] \in {<<"Non-Stellar Only">>, <<"Stellar Only">>} THEN 2 ELSE 1
      [] OTHER -> 0

SharpenModes == {<<"Both">>, <<"Non-Stellar Only">>, <<"Stellar Only">>}

SharpenCCParamsMutKeepsExtras(n) ==
    CASE n[1] = <<"Both">> ->
            [mode |-> n[1], stellar_amount |-> n[2], non_stellar_amount |-> n[3],
             non_stellar_strength |-> n[4]]
      [] n[1] = <<"Non-Stellar Only">> ->
            [mode |-> n[1], stellar_amount |-> <<"0">>, non_stellar_amount |-> n[2],
             non_stellar_strength |-> n[3]]
      [] n[1] = <<"Stellar Only">> ->
            [mode |-> n[1], stellar_amount |-> n[2],
             non_stellar_amount |-> IF Len(n) >= 3 THEN n[3] ELSE <<"0">>,
             non_stellar_strength |-> IF Len(n) >= 4 THEN n[4] ELSE <<"0">>]

\* sharpenCC_* as main_logic sets them from the tuple n of one -sc option.
SharpenCCParams(n) ==
    CASE n[1] = <<"Both">> ->
            [mode |-> n[1], stellar_amount |-> n[2], non_stellar_amount |-> n[3],
             non_stellar_strength |-> n[4]]
      [] n[1] = <<"Non-Stellar Only">> ->
            [mode |-> n[1], stellar_amount |-> <<"0">>, non_stellar_amount |-> n[2],
             non_stellar_strength |-> n[3]]
      [] n[1] = <<"Stellar Only">> ->
            [mode |-> n[1], stellar_amount |-> n[2], non_stellar_amount |-> <<"0">>,
             non_stellar_strength |-> <<"0">>]

\* sharpenSA_* as main_logic sets them from the tuple n of one -ssa option.
SharpenSAParams(n) ==
    CASE n[1] = <<"Both">> ->
            [mode |-> n[1], stellar_amount |-> n[2], non_stellar_amount |-> n[3]]
      [] n[1] = <<"Non-Stellar Only">> ->
            [mode |-> n[1], stellar_amount |-> <<"0">>, non_stellar_amount |-> n[2]]
      [] n[1] = <<"Stellar Only">> ->
            [mode |-> n[1], stellar_amount |-> n[2], non_stellar_amount |-> <<"0">>]

\* newimage of a GPS_Process stage for one image and one parameter tuple.
NewImage(st, image, n) ==
    CASE st = "abe" ->
            CatAll(<<RSplit0(image), <<"_ab">>, n[1], <<"-">>, n[2], <<"-">>, n[3]>>)
      [] st = "autostretch" -> Cat(SplitExt0(image), <<"_as">>)
      [] st = "bkg" -> CatAll(<<RSplit0(image), <<"_b">>, n[1]>>)
      [] st = "bkg_GraX" -> CatAll(<<RSplit0(image), <<"_bg">>, n[1]>>)
      [] st = "denoise" -> Cat(SplitExt0(image), <<"_d">>)
      [] st = "denoise_CC" ->
            CatAll(<<RSplit0(image), <<"_dc">>, n[1], n[2], <<"", "fit">>>>)
      [] st = "denoise_GraX" -> CatAll(<<RSplit0(image), <<"_dg">>, n[1]>>)
      [] st = "denoise_SA" ->
            CatAll(<<RSplit0(image), <<"_dsa-">>, n[1], <<"-">>, n[2], <<"-">>, n[3],
                     <<"", "fit">>>>)
      [] st = "sharpen" -> Cat(SplitExt0(image), <<"_ss">>)
      [] st = "sharpen_CC" ->
            LET q == SharpenCCParams(n) IN
            CatAll(<<RSplit0(image), <<"_sc">>, q.mode, <<"-">>, q.non_stellar_strength,
                     <<"-">>, q.stellar_amount, <<"-">>, q.non_stellar_amount,
                     <<"", "fit">>>>)
      [] st = "sharpen_GraX" -> CatAll(<<RSplit0(image), <<"_sg">>, n[1], n[2]>>)
      [] st = "sharpen_SA" ->
            LET q == SharpenSAParams(n) IN
            CatAll(<<RSplit0(image), <<"_ssa-">>, FirstWord(q.mode), <<"-">>,
                     q.non_stellar_amount, <<"-">>, q.stellar_amount, <<"", "fit">>>>)
      [] st = "spcc" -> Cat(SplitExt0(image), <<"_spcc">>)
      [] st = "statstretch" ->
            CatAll(<<SplitExt0(image), <<"_ss">>, n[1], <<"-">>, n[2], <<"-">>, n[3]>>)

\* The processing commands a GPS_Process host stage sends between load and
\* save, as <<verb, operands>>.
ProcCmds(st, n) ==
    CASE st = "abe" ->
            <<<<"pyscript", CatAll(<<<<"AutoBGE", "py -npoints ">>, n[1],
                                     <<" -polydegree ">>, n[2], <<" -rbfsmooth ">>, n[3]>>)>>>>
      [] st = "autostretch" -> <<<<"autostretch", <<"-linked">>>>>>
      [] st = "bkg" ->
            <<<<"subsky", Cat(<<"-rbf -samples=20 -tolerance=1", "0 -smooth=">>, n[1])>>>>
      [] st = "bkg_GraX" ->
            <<<<"pyscript", Cat(<<"GraXpert-AI", "py -bge -smoothing ">>, n[1])>>>>
      [] st = "denoise" -> <<<<"denoise", <<"-indep -vst">>>>>>
      [] st = "denoise_GraX" ->
            <<<<"pyscript", Cat(<<"GraXpert-AI", "py -gpu -denoise -strength ">>, n[1])>>>>
      [] st = "sharpen" ->
            <<<<"rl", <<"-gdstep=0", "0003 -iters=40 -alpha=3000 -tv">>>>,
              <<"rl", <<"-gdstep=0", "0002 -iters=40 -alpha=3000 -tv">>>>,
              <<"rl", <<"-gdstep=0", "0001 -iters=40 -alpha=3000 -tv">>>>>>
      [] st = "sharpen_GraX" ->
            LET obj == <<"pyscript",
                         Cat(<<"GraXpert-AI", "py -gpu -deconv_obj -strength ">>, n[2])>>
                stl == <<"pyscript",
                         Cat(<<"GraXpert-AI", "py -gpu -deconv_stellar -strength ">>, n[2])>>
            IN CASE n[1] = <<"both">> -> <<obj, stl>>
                 [] n[1] = <<"object">> -> <<obj>>
                 [] n[1] = <<"stellar">> -> <<stl>>
                 [] OTHER -> <<>>
      [] st = "statstretch" ->
            <<<<"pyscript",
                CatAll(<<<<"Statistical_Stretch",
                           "py -linked -normalize -hdr -hdramount ">>, n[1],
                         <<" -hdrknee ">>, n[2], <<" -boost ">>, n[3]>>)>>>>

\* The processing commands of a GPS_Postprocess host stage.
PostCmds(st, n) ==
    CASE st = "bkg" ->
            <<<<"subsky", Cat(<<"-rbf -samples=20 -tolerance=1", "0 -smooth=">>, n[1])>>>>
      [] st = "bkg_GraX" ->
            <<<<"pyscript", Cat(<<"GraXpert-AI", "py -gpu -bge -smoothing ">>, n[1])>>>>
      [] st = "sharpen" ->
            <<<<"rl", <<"-gdstep=0", "0003 -iters=40 -alpha=3000 -tv">>>>,
              <<"rl", <<"-gdstep=0", "0002 -iters=40 -alpha=3000 -tv">>>>>>
      [] st = "denoise_GraX" ->
            <<<<"pyscript", Cat(<<"GraXpert-AI", "py -gpu -denoise -strength ">>, n[1])>>>>
      [] st = "sharpen_GraX" ->
            <<<<"pyscript", Cat(<<"GraXpert-AI", "py -gpu -deconv_obj -strength ">>, n[1])>>,
              <<"pyscript",
                Cat(<<"GraXpert-AI", "py -gpu -deconv_stellar -strength ">>, n[1])>>>>

\* The file the host writes for 'save name' under 'setext fit': a name that
\* already carries a FITS extension is written as it is, a compressed name is
\* written uncompressed while compression is off, any other name gets .fit,
\* and .fz too while compression is on.
HostSave(name, compressed) ==
    IF Len(name) >= 2 /\ Last(name) \in {"fit", "fits", "fts"} THEN name
    ELSE IF Len(name) >= 2 /\ Last(name) = "fz" /\ ~compressed THEN SplitExt0(name)
    ELSE IF Len(name) >= 2 /\ Last(name) = "fz" THEN name
    ELSE IF compressed THEN name \o <<"fit", "fz">> ELSE name \o <<"fit">>

\* The file the Cosmic Clarity executable writes for one file of its input directory.
ToolOutput(f) == Cat(RSplit0(f), <<"_cc", "fit">>)

\* What one run of the executable can leave in its output directory: a file
\* for every file of the input directory, or nothing when it fails.
ToolRuns(in) == {{}, {ToolOutput(f) : f \in in}}

----------------------------------------------------------------------------
(* GPS_Process.py and GPS_Postprocess.py                                   *)

MaxArgs == 2
MaxImages == 2
MaxLoad == 3

\* The order in which main_logic of GPS_Process calls the stage functions.
ProcOrderMutDenoiseFirst ==
    <<"abe", "bkg", "bkg_GraX", "spcc", "denoise", "denoise_CC", "denoise_SA",
      "denoise_GraX", "sharpen", "sharpen_CC", "sharpen_GraX", "sharpen_SA",
      "autostretch", "statstretch", "multiprocess">>

ProcOrder ==
    <<"abe", "bkg", "bkg_GraX", "spcc", "sharpen", "sharpen_CC", "sharpen_GraX",
      "sharpen_SA", "denoise", "denoise_CC", "denoise_SA", "denoise_GraX",
      "autostretch", "statstretch", "multiprocess">>

\* The order of the stage calls at module level of GPS_Postprocess.
PostOrder ==
    <<"bkg", "bkg_GraX", "sharpen", "denoise_CC", "sharpen_CC", "denoise_GraX",
      "sharpen_GraX">>

Order(sc) == IF sc = "proc" THEN ProcOrder ELSE PostOrder

\* dest of each option of the two argument parsers.
StageOf(flag) ==
    CASE flag = "-ab" -> "abe"
      [] flag = "-as" -> "autostretch"
      [] flag = "-b" -> "bkg"
      [] flag = "-bg" -> "bkg_GraX"
      [] flag = "-cc" -> "spcc"
      [] flag = "-dc" -> "denoise_CC"
      [] flag = "-dg" -> "denoise_GraX"
      [] flag = "-dsa" -> "denoise_SA"
      [] flag = "-ds" -> "denoise"
      [] flag = "-m" -> "multiprocess"
      [] flag = "-s" -> "sharpen"
      [] flag = "-sc" -> "sharpen_CC"
      [] flag = "-sg" -> "sharpen_GraX"
      [] flag = "-ssa" -> "sharpen_SA"
      [] flag = "-ss" -> "statstretch"

StoreTrue == {"autostretch", "denoise", "multiprocess", "sharpen"}

AppendsMutLastOnly(sc, st) == FALSE

\* GPS_Process: action='append' for every valued option but -cc.
Appends(sc, st) == sc = "proc" /\ st \notin StoreTrue /\ st # "spcc"

\* parse_args: stage -> the parameter tuples main_logic will use, in order.
\* An absent option gives <<>>, a store_true option one empty tuple, an
\* appending option all its tuples, any other option its last tuple.
Parse(sc, av) ==
    [st \in {Order(sc)[i] : i \in DOMAIN Order(sc)} |->
        LET given == SelectSeq(av, LAMBDA o : StageOf(o.flag) = st)
            tuples == [i \in DOMAIN given |-> given[i].n]
        IN IF given = <<>> THEN <<>>
           ELSE IF st \in StoreTrue THEN <<<<>>>>
           ELSE IF Appends(sc, st) THEN tuples
           ELSE <<tuples[Len(tuples)]>>]

ProcOptions ==
    {[flag |-> "-ab", n |-> <<<<"100">>, <<"2">>, <<"0", "1">>>>],
     [flag |-> "-as", n |-> <<>>],
     [flag |-> "-b", n |-> <<<<"0", "5">>>>],
     [flag |-> "-b", n |-> <<<<"0", "9">>>>],
     [flag |-> "-bg", n |-> <<<<"0", "5">>>>],
     [flag |-> "-cc", n |-> <<<<"IMX571">>, <<"UV/IR">>>>],
     [flag |-> "-dc", n |-> <<<<"full">>, <<"0", "5">>>>],
     [flag |-> "-dg", n |-> <<<<"0", "5">>>>],
     [flag |-> "-dsa", n |-> <<<<"full">>, <<"0", "5">>, <<"0", "5">>>>],
     [flag |-> "-ds", n |-> <<>>],
     [flag |-> "-m", n |-> <<>>],
     [flag |-> "-s", n |-> <<>>],
     [flag |-> "-sc", n |-> <<<<"Both">>, <<"0", "5">>, <<"0", "5">>, <<"5">>>>],
     [flag |-> "-sc", n |-> <<<<"Stellar Only">>, <<"0", "5">>>>],
     [flag |-> "-sc", n |-> <<<<"Stellar Only">>, <<"0", "3">>, <<"0", "7">>, <<"9">>>>],
     [flag |-> "-sc", n |-> <<<<"Non-Stellar Only">>, <<"0", "7">>, <<"9">>>>],
     [flag |-> "-sc", n |-> <<<<"stellar">>, <<"0", "5">>>>],
     [flag |-> "-sg", n |-> <<<<"both">>, <<"0", "5">>>>],
     [flag |-> "-sg", n |-> <<<<"both">>>>],
     [flag |-> "-sg", n |-> <<<<"Both">>, <<"0", "5">>>>],
     [flag |-> "-ssa", n |-> <<<<"Both">>, <<"0", "5">>, <<"0", "5">>>>],
     [flag |-> "-ssa", n |-> <<<<"stellar">>, <<"0", "5">>>>],
     [flag |-> "-ss", n |-> <<<<"1">>, <<"2">>, <<"3">>>>]}

PostOptions ==
    {[flag |-> "-b", n |-> <<<<"0", "5">>>>],
     [flag |-> "-bg", n |-> <<<<"0", "5">>>>],
     [flag |-> "-dc", n |-> <<<<"0", "5">>>>],
     [flag |-> "-dg", n |-> <<<<"0", "5">>>>],
     [flag |-> "-s", n |-> <<>>],
     [flag |-> "-sc", n |-> <<<<"0", "5">>, <<"0", "5">>, <<"5">>>>],
     [flag |-> "-sc", n |-> <<<<"0", "5">>>>],
     [flag |-> "-sg", n |-> <<<<"0", "5">>>>]}

Options(sc) == IF sc = "proc" THEN ProcOptions ELSE PostOptions

Argvs(sc) == UNION {[1..k -> Options(sc)] : k \in 1..MaxArgs}

\* Command lines of GPS_Process that repeat an option around an option of a
\* later stage.
Interleaved ==
    {<<[flag |-> "-b", n |-> <<<<"0", "5">>>>],
       [flag |-> "-ss", n |-> <<<<"1">>, <<"2">>, <<"3">>>>],
       [flag |-> "-b", n |-> <<<<"0", "9">>>>]>>,
     <<[flag |-> "-dg", n |-> <<<<"0", "5">>>>],
       [flag |-> "-b", n |-> <<<<"0", "9">>>>],
       [flag |-> "-b", n |-> <<<<"0", "5">>>>]>>}

\* The dialog of GPS_Process (ProcessingDialog): one check box per stage, in
\* the order run_gui turns them into options.
GuiStages ==
    <<"abe", "bkg", "bkg_GraX", "denoise", "denoise_CC", "denoise_SA", "denoise_GraX",
      "sharpen", "sharpen_CC", "sharpen_SA", "sharpen_GraX", "autostretch",
      "statstretch", "multiprocess">>

FlagOf(st) ==
    CHOOSE fl \in {"-ab", "-as", "-b", "-bg", "-dc", "-dg", "-dsa", "-ds", "-m", "-s", "-sc",
                   "-sg", "-ssa", "-ss"} : StageOf(fl) = st

\* The text of the line edits when OK is pressed.  The sharpen amounts have
\* been edited so that each field holds a text of its own.
FieldText ==
    [abe_npoints |-> <<"100">>, abe_polydegree |-> <<"2">>, abe_rbfsmooth |-> <<"0", "1">>,
     bkg_smooth |-> <<"0", "5">>, bkg_grax_smooth |-> <<"0", "5">>,
     sharpen_cc_stellar_amount |-> <<"0", "3">>,
     sharpen_cc_non_stellar_amount |-> <<"0", "7">>,
     sharpen_cc_non_stellar_strength |-> <<"5">>,
     sharpen_ssa_stellar_amount |-> <<"0", "3">>,
     sharpen_ssa_non_stellar_amount |-> <<"0", "7">>,
     sharpen_grax_mode |-> <<"both">>, sharpen_grax_strength |-> <<"0", "5">>,
     denoise_cc_mode |-> <<"full">>, denoise_cc_strength |-> <<"0", "5">>,
     denoise_dsa_mode |-> <<"full">>, denoise_dsa_luma_amount |-> <<"0", "5">>,
     denoise_dsa_color_amount |-> <<"0", "5">>, denoise_grax_strength |-> <<"0", "5">>,
     stretch_hdr_amount |-> <<"0", "15">>, stretch_hdr_knee |-> <<"0", "75">>,
     stretch_boost_amount |-> <<"0", "2">>]

\* update_sharpen_cc_options / update_sharpen_ssa_options: the line edits
\* that are enabled for a mode of the combo box.
EnabledFields(mode) ==
    CASE mode = <<"Both">> -> {"stellar_amount", "non_stellar_amount", "non_stellar_strength"}
      [] mode = <<"Stellar Only">> -> {"stellar_amount"}
      [] mode = <<"Non-Stellar Only">> -> {"non_stellar_amount", "non_stellar_strength"}

\* The states of the dialog when OK is pressed: the boxes checked and the
\* modes chosen in the two sharpen combo boxes.
Forms ==
    {f \in [checked : SUBSET {GuiStages[i] : i \in DOMAIN GuiStages},
            sharpen_cc_mode : SharpenModes, sharpen_ssa_mode : SharpenModes] :
        /\ Cardinality(f.checked) \in 1..MaxArgs
        /\ "sharpen_CC" \notin f.checked => f.sharpen_cc_mode = <<"Both">>
        /\ "sharpen_SA" \notin f.checked => f.sharpen_ssa_mode = <<"Both">>}

\* get_values: the value lists of the valued stages.
GetValues(f, st) ==
    LET t == FieldText IN
    CASE st = "abe" -> <<t.abe_npoints, t.abe_polydegree, t.abe_rbfsmooth>>
      [] st = "bkg" -> <<t.bkg_smooth>>
      [] st = "bkg_GraX" -> <<t.bkg_grax_smooth>>
      [] st = "denoise_CC" -> <<t.denoise_cc_mode, t.denoise_cc_strength>>
      [] st = "denoise_SA" ->
            <<t.denoise_dsa_mode, t.denoise_dsa_luma_amount, t.denoise_dsa_color_amount>>
      [] st = "denoise_GraX" -> <<t.denoise_grax_strength>>
      [] st = "sharpen_CC" ->
            <<f.sharpen_cc_mode, t.sharpen_cc_stellar_amount,
              t.sharpen_cc_non_stellar_amount, t.sharpen_cc_non_stellar_strength>>
      [] st = "sharpen_SA" ->
            <<f.sharpen_ssa_mode, t.sharpen_ssa_stellar_amount,
              t.sharpen_ssa_non_stellar_amount>>
      [] st = "sharpen_GraX" -> <<t.sharpen_grax_mode, t.sharpen_grax_strength>>
      [] st = "statstretch" ->
            <<t.stretch_hdr_amount, t.stretch_hdr_knee, t.stretch_boost_amount>>
      [] OTHER -> <<>>

\* cli_args as run_gui builds it from the values of the dialog.
CliArgs(f) ==
    LET chosen == SelectSeq(GuiStages, LAMBDA st : st \in f.checked)
    IN [i \in DOMAIN chosen |-> [flag |-> FlagOf(chosen[i]), n |-> GetValues(f, chosen[i])]]

\* The options main_logic will be given: those of the command line, or those
\* run_gui builds.
Given == IF form = <<>> THEN argv ELSE CliArgs(form)

M31 == <<"m31", "fit">>

Images == {M31, <<"n", "fits">>, <<"c", "fit", "fz">>, <<"m31", "fits">>}

\* The working directories: one without any image, or m31.fit and up to
\* MaxImages - 1 other images.
InitDirs ==
    {d \in SUBSET Images : Cardinality(d) <= MaxImages /\ (d = {} \/ M31 \in d)}

Stale == <<"old", "fit">>

CCStages == {"denoise_CC", "sharpen_CC"}

SAStages == {"denoise_SA", "sharpen_SA"}

ConfFiles == {"sirilcc_denoise.conf", "sirilcc_sharpen.conf", "sirilcc_saspro.conf"}

ConfOfMutSwapped(st) ==
    CASE st = "denoise_CC" -> "sirilcc_sharpen.conf"
      [] st = "sharpen_CC" -> "sirilcc_denoise.conf"
      [] st \in SAStages -> "sirilcc_denoise.conf"

\* The configuration file a stage function looks for.
ConfOf(st) ==
    CASE st = "denoise_CC" -> "sirilcc_denoise.conf"
      [] st = "sharpen_CC" -> "sirilcc_sharpen.conf"
      [] st \in SAStages -> "sirilcc_saspro.conf"

\* The configuration files the requested stages look for.
Needed(av) ==
    {ConfOf(st) : st \in {StageOf(av[i].flag) : i \in DOMAIN av} \cap (CCStages \cup SAStages)}

\* The processed_k directories that exist at the start: none, processed_1,
\* or processed_2 alone (processed_1 was removed by the user).
InitPdirs(sc, av) ==
    IF sc = "proc" /\ \E i \in DOMAIN av : av[i].flag = "-m"
    THEN {<<>>, 1 :> {}, 2 :> {<<"m31_b0", "5", "fit">>}}
    ELSE {<<>>}

InitEnh ==
    /\ script \in {"proc", "post"}
    /\ \/ /\ form = <<>>
          /\ argv \in Argvs(script) \cup (IF script = "proc" THEN Interleaved ELSE {})
          /\ pc = "setup"
       \/ /\ script = "proc"
          /\ form \in Forms
          /\ argv = <<>>
          /\ pc = "dialog"
    /\ args = Parse(script, argv)
    /\ wd \in InitDirs
    /\ \/ Len(Given) + Cardinality(wd) <= MaxLoad
       \/ argv \in Interleaved /\ wd = {M31}
    /\ ccin \in {{}, {Stale}}
    /\ ccout \in {{}, {Stale}}
    /\ (ccin # {} \/ ccout # {}) => Len(Given) = 1 /\ StageOf(Given[1].flag) \in CCStages
    /\ conf \in SUBSET ConfFiles
    /\ ConfFiles \ conf \subseteq Needed(Given)
    /\ workdir \in {"absolute", "relative"}
    /\ cwd = "launch"
    /\ fault \in Faults(script)
    /\ StreamIdle
    /\ gui = (form # <<>>) /\ boxes = <<>>
    /\ console = <<>>
    /\ compress \in BOOLEAN
    /\ compress => \E f \in wd : Last(f) = "fz"
    /\ run = 1
    /\ log = <<>>
    /\ processed = {}
    /\ originals = {}
    /\ inv = 0
    /\ phase = "call"
    /\ todo = <<>>
    /\ pdirs \in InitPdirs(script, Given)
    /\ entries = <<>> /\ markers = <<>> /\ frames = <<>> /\ sess = 0 /\ nextv = 0
    /\ nlights = <<>> /\ object = Empty /\ renames = <<>>
    /\ names = <<>>

\* The parameters on the command line of the executable of a GPS_Process stage.
ProcCmdLine(st, n) ==
    CASE st = "denoise_CC" -> [denoise_mode |-> n[1], denoise_strength |-> n[2]]
      [] st = "sharpen_CC" ->
            LET q == SharpenCCParams(n) IN
            [sharpening_mode |-> q.mode, nonstellar_strength |-> q.non_stellar_strength,
             stellar_amount |-> q.stellar_amount, nonstellar_amount |-> q.non_stellar_amount]
      [] st = "denoise_SA" ->
            [denoise_mode |-> n[1], denoise_luma |-> n[2], denoise_color |-> n[3]]
      [] st = "sharpen_SA" ->
            LET q == SharpenSAParams(n) IN
            [sharpening_mode |-> q.mode, nonstellar_amount |-> q.non_stellar_amount,
             stellar_amount |-> q.stellar_amount]

\* The parameters on the command line of the executable of a GPS_Postprocess stage.
PostCmdLine(st, n) ==
    CASE st = "denoise_CC" -> [denoise_strength |-> n[1], denoise_mode |-> <<"full">>]
      [] st = "sharpen_CC" ->
            [nonstellar_strength |-> n[3], stellar_amount |-> n[1],
             nonstellar_amount |-> n[2], sharpening_mode |-> <<"Both">>]

\* One entry of the log: a siril.cmd call, or ("exec") one subprocess.Popen
\* with its command line and the tool's directories as the executable finds them.
Cmd(st, verb, arg) ==
    [st |-> st, run |-> run, k |-> inv, verb |-> verb, arg |-> arg, indir |-> {},
     outdir |-> {}, cl |-> <<>>]

Exec(st, image, in, out, cl) ==
    [st |-> st, run |-> run, k |-> inv, verb |-> "exec", arg |-> image, indir |-> in,
     outdir |-> out, cl |-> cl]

CmdsOf(st, cs) == [i \in DOMAIN cs |-> Cmd(st, cs[i][1], cs[i][2])]

RECURSIVE FirstFrom(_, _, _)
FirstFrom(order, a, i) ==
    IF i > Len(order) THEN "done"
    ELSE IF a[order[i]] # <<>> THEN order[i] ELSE FirstFrom(order, a, i + 1)

IndexOf(order, st) == CHOOSE i \in DOMAIN order : order[i] = st

\* The stage call that follows call k of stage st.
After(sc, a, st, k) ==
    IF k < Len(a[st]) THEN <<st, k + 1>>
    ELSE <<FirstFrom(Order(sc), a, IndexOf(Order(sc), st) + 1), 1>>

\* run_gui: OK turns the values of the dialog into cli_args and calls main_logic.
GuiAccept ==
    /\ script = "proc"
    /\ pc = "dialog"
    /\ argv' = CliArgs(form)
    /\ args' = Parse(script, argv')
    /\ pc' = "setup"
    /\ UNCHANGED <<script, run, log, entries, fault, gui, ioVars, console, boxes, preVars, names, wd, ccin,
                   ccout, processed, originals, inv, phase, todo, compress, pdirs, conf,
                   workdir, cwd, form>>

\* run_gui: Cancel ends the script.
GuiReject ==
    /\ script = "proc"
    /\ pc = "dialog"
    /\ pc' = "closed"
    /\ UNCHANGED <<script, run, args, log, entries, fault, gui, ioVars, console, boxes, preVars, names, enhVars>>

SetupCmds ==
    <<<<"requires", <<"1", "3", "6">>>>, <<"cd", <<"workdir">>>>, <<"set32bits", Empty>>,
      <<"setext", <<"fit">>>>>>

\* connect, handshake and session options inside try.  GPS_Process then
\* changes into the working directory and records the images present; an
\* error ends its main_logic in the except clause.  The except clause of
\* GPS_Postprocess closes the setup only: the dispatch below it still runs.
EnhSetup ==
    /\ script \in {"proc", "post"}
    /\ pc = "setup"
    /\ log' = log \o SubSeq(CmdsOf("setup", SetupCmds), 1, SetupSent(fault))
    /\ inv' = 1
    /\ IF fault \notin SetupFaults
       THEN /\ pc' = FirstFrom(Order(script), args, 1)
            /\ originals' = IF script = "proc" THEN {f \in wd : IsImage(f)} ELSE originals
            /\ cwd' = IF script = "proc" THEN "wd" ELSE cwd
            /\ UNCHANGED <<console, boxes>>
       ELSE /\ pc' = IF script = "proc" THEN "error" ELSE FirstFrom(Order(script), args, 1)
            /\ console' = Append(console, ErrorReport)
            /\ IF script = "proc" THEN ExceptBox ELSE UNCHANGED boxes
            /\ UNCHANGED <<originals, cwd>>
    /\ UNCHANGED <<script, run, args, entries, preVars, names, fault, gui, ioVars, argv, conf, workdir,
                   form, wd, ccin, ccout, processed, phase, todo, compress, pdirs>>

Advance(st) ==
    /\ pc' = After(script, args, st, inv)[1]
    /\ inv' = After(script, args, st, inv)[2]

\* The stage function st has been called for parameter tuple inv.
Entered(st) ==
    entries' = Append(entries, [st |-> st, run |-> run, k |-> inv, n |-> args[st][inv]])

RaisedMutGoesOn ==
    /\ pc' = "done"
    /\ UNCHANGED <<console, boxes>>

\* An exception inside try of main_logic of GPS_Process: the except clause
\* prints it and main_logic returns.
Raised ==
    /\ pc' = "error"
    /\ console' = Append(console, ErrorReport)
    /\ ExceptBox

\* sys.exit(1) after a message.
Exits(msg) ==
    /\ pc' = "exit"
    /\ console' = Append(console, msg)
    /\ UNCHANGED boxes

\* An exception at module level of GPS_Postprocess: the interpreter prints
\* the traceback and ends.
Crashes ==
    /\ pc' = "crash"
    /\ console' = Append(console, "Traceback")
    /\ UNCHANGED boxes

\* os.chdir(workdir) finds the working directory: always for an absolute
\* path, for a relative one only from the launch directory.
ChdirOk == workdir = "absolute" \/ cwd = "launch"

NotConfigured(st) ==
    IF st \in SAStages
    THEN "Executable not configured. Please create file 'sirilcc_saspro.conf' in your siril config directory with a line containing the path to setiastrosuitepro."
    ELSE "Executable not yet configured. It is recommended to use Seti Astro Cosmic Clarity v5.4 or higher."

BadMode == "Mode needs to be either Both, Stellar Only or Non-Stellar Only"

\* The file loop of a GPS_Process host stage over the images in listing order:
\* load, the stage's commands, save under the derived name.
RECURSIVE ProcLoop(_, _, _)
ProcLoop(st, order, n) ==
    IF order = <<>> THEN <<>>
    ELSE <<Cmd(st, "load", Head(order))>> \o CmdsOf(st, ProcCmds(st, n))
         \o <<Cmd(st, "save", NewImage(st, Head(order), n))>>
         \o ProcLoop(st, Tail(order), n)

\* The images of the listing whose save command has returned.
Finished(order, cs) ==
    {order[i] : i \in 1..Cardinality({j \in DOMAIN cs : cs[j].verb = "save"})}

EligibleMutSkipsDerived == {f \in wd : IsImage(f) /\ f \notin processed /\ Len(f) = 2}

EligibleMutOriginals == {f \in wd : IsImage(f) /\ f \in originals}

\* image.endswith(...) and image not in processed_images
Eligible == {f \in wd : IsImage(f) /\ f \notin processed}

\* A stage function of GPS_Process that works through siril.cmd, called for
\* parameter tuple inv of its option.  A tuple shorter than the values
\* main_logic reads raises IndexError before the call; os.chdir raises when
\* it does not find the working directory.
ProcHostStage(st) ==
    LET n == args[st][inv] IN
    /\ script = "proc"
    /\ pc = st
    /\ IF Len(n) < Arity(st, n)
       THEN /\ Raised
            /\ UNCHANGED <<log, entries, wd, processed, inv>>
       ELSE IF ~ChdirOk
       THEN /\ Raised
            /\ Entered(st)
            /\ UNCHANGED <<log, wd, processed, inv>>
       ELSE /\ \E order \in Perms(Eligible) :
                  LET cs == ProcLoop(st, order, n)
                      finished == Finished(order, Returned(cs))
                  IN /\ log' = log \o Sent(cs)
                     /\ wd' = wd \cup {HostSave(NewImage(st, f, n), compress) : f \in finished}
                     /\ processed' = processed \cup finished
                     /\ IF Fails(cs)
                        THEN Raised /\ UNCHANGED inv
                        ELSE Advance(st) /\ UNCHANGED <<console, boxes>>
            /\ Entered(st)
    /\ UNCHANGED <<script, run, args, preVars, names, fault, gui, ioVars, argv, conf, workdir, cwd, form,
                   ccin, ccout, originals, phase, todo, compress, pdirs>>

Abe == ProcHostStage("abe")

Bkg == ProcHostStage("bkg")

BkgGraX == ProcHostStage("bkg_GraX")

\* spcc: main_logic keeps Type and the sensor and filter names in local
\* variables, so the stage function's first use of Type, after load and
\* platesolve of the first image listed, raises NameError.
Spcc ==
    /\ script = "proc"
    /\ pc = "spcc"
    /\ IF Len(args["spcc"][inv]) \notin {2, 4}
       THEN /\ Exits("spcc needs 2 args for OSC or 4 args for mono")
            /\ UNCHANGED <<log, entries, inv>>
       ELSE IF ~ChdirOk
       THEN /\ Raised
            /\ Entered("spcc")
            /\ UNCHANGED <<log, inv>>
       ELSE IF Eligible = {}
       THEN /\ Advance("spcc")
            /\ Entered("spcc")
            /\ UNCHANGED <<log, console, boxes>>
       ELSE /\ \E image \in Eligible :
                  log' = log \o Sent(<<Cmd("spcc", "load", image),
                                       Cmd("spcc", "platesolve", Empty)>>)
            /\ Raised
            /\ Entered("spcc")
            /\ UNCHANGED inv
    /\ UNCHANGED <<script, run, args, preVars, names, fault, gui, ioVars, argv, conf, workdir, cwd, form,
                   wd, ccin, ccout, processed, originals, phase, todo, compress, pdirs>>

Sharpen == ProcHostStage("sharpen")

SharpenGraX == ProcHostStage("sharpen_GraX")

Denoise == ProcHostStage("denoise")

DenoiseGraX == ProcHostStage("denoise_GraX")

Autostretch == ProcHostStage("autostretch")

Statstretch == ProcHostStage("statstretch")

\* main_logic's checks on the tuple of a Cosmic Clarity / SASpro stage:
\* "exit" for an unsupported sharpen mode, "error" for a missing value.
TupleCheck(st, n) ==
    IF st \in {"sharpen_CC", "sharpen_SA"} /\ n[1] \notin SharpenModes THEN "exit"
    ELSE IF Len(n) < Arity(st, n) THEN "error"
    ELSE "ok"

\* Entry of denoise_CC / sharpen_CC of GPS_Process: look for the
\* configuration file, empty the tool's input directory, change back into
\* the working directory and list it.
ProcCCCall ==
    /\ script = "proc"
    /\ pc \in CCStages
    /\ phase = "call"
    /\ LET chk == TupleCheck(pc, args[pc][inv]) IN
       IF chk = "exit"
       THEN /\ Exits(BadMode)
            /\ UNCHANGED <<entries, ccin, cwd, phase, todo>>
       ELSE IF chk = "error"
       THEN /\ Raised
            /\ UNCHANGED <<entries, ccin, cwd, phase, todo>>
       ELSE IF ConfOf(pc) \notin conf
       THEN /\ Exits(NotConfigured(pc))
            /\ Entered(pc)
            /\ UNCHANGED <<ccin, cwd, phase, todo>>
       ELSE IF workdir # "absolute"
       THEN /\ Raised
            /\ Entered(pc)
            /\ ccin' = {}
            /\ cwd' = "ccin"
            /\ UNCHANGED <<phase, todo>>
       ELSE /\ Entered(pc)
            /\ ccin' = {}
            /\ cwd' = "wd"
            /\ todo' \in Perms(Eligible)
            /\ phase' = "loop"
            /\ UNCHANGED <<pc, console, boxes>>
    /\ UNCHANGED <<script, run, args, log, preVars, names, fault, gui, ioVars, argv, conf, workdir, form,
                   wd, ccout, processed, originals, inv, compress, pdirs>>

\* The commands that turn a compressed image into an uncompressed one.
Uncompress(st, image) ==
    (IF compress THEN <<Cmd(st, "setcompress", <<"0">>)>> ELSE <<>>)
    \o <<Cmd(st, "load", image), Cmd(st, "save", image)>>
    \o (IF compress THEN <<Cmd(st, "setcompress", <<"1">>)>> ELSE <<>>)

\* One pass of the file loop of denoise_CC / sharpen_CC of GPS_Process.
ProcCCStep ==
    /\ script = "proc"
    /\ pc \in CCStages
    /\ phase = "loop"
    /\ todo # <<>>
    /\ todo' = Tail(todo)
    /\ IF Head(todo) \in processed
       THEN UNCHANGED <<log, wd, ccin, ccout, processed, pc, console, boxes>>
       ELSE LET listed == Head(todo)
                fz == Last(listed) = "fz"
                unc == IF fz THEN Uncompress(pc, listed) ELSE <<>>
                image == IF fz THEN SplitExt0(listed) ELSE listed
                wd1 == IF fz THEN (wd \cup {HostSave(listed, FALSE)}) \ {image \o <<"fz">>}
                       ELSE wd
                in1 == ccin \cup {image}
            IN IF Fails(unc)
               THEN /\ log' = log \o Sent(unc)
                    /\ Raised
                    /\ UNCHANGED <<wd, ccin, ccout, processed>>
               ELSE \E produced \in ToolRuns(in1) :
                 LET out1 == ccout \cup produced IN
                 /\ log' = log \o unc
                               \o <<Exec(pc, image, in1, ccout,
                                         ProcCmdLine(pc, args[pc][inv]))>>
                 /\ ccin' = {}
                 /\ ccout' = {}
                 /\ wd' = IF out1 = {} THEN wd1
                          ELSE wd1 \cup {NewImage(pc, image, args[pc][inv])}
                 /\ processed' = IF out1 = {} THEN processed ELSE processed \cup {image}
                 /\ UNCHANGED <<pc, console, boxes>>
    /\ UNCHANGED <<script, run, args, entries, preVars, names, fault, gui, ioVars, argv,
                   conf, workdir, cwd, form, originals, inv, phase, compress, pdirs>>

\* The file loop is over: the stage function returns.
ProcCCReturn ==
    /\ script = "proc"
    /\ pc \in CCStages
    /\ phase = "loop"
    /\ todo = <<>>
    /\ phase' = "call"
    /\ Advance(pc)
    /\ UNCHANGED <<script, run, args, log, entries, preVars, names, fault, gui, ioVars, console, boxes, argv,
                   conf, workdir, cwd, form, wd, ccin, ccout, processed, originals, todo,
                   compress, pdirs>>

RECURSIVE ExecLoop(_, _, _)
ExecLoop(st, order, cl) ==
    IF order = <<>> THEN <<>>
    ELSE <<Exec(st, Head(order), {}, {}, cl)>> \o ExecLoop(st, Tail(order), cl)

\* denoise_SA / sharpen_SA of GPS_Process: no os.chdir; one subprocess per
\* image of the current directory, which writes the derived name there, or
\* fails to.  The current directory is the working directory here: main_logic
\* has changed into it and every stage before has returned in it.
ProcSAStage(st) ==
    LET n == args[st][inv]
        chk == TupleCheck(st, n)
    IN
    /\ script = "proc"
    /\ pc = st
    /\ IF chk = "exit"
       THEN /\ Exits(BadMode)
            /\ UNCHANGED <<log, entries, wd, processed, inv>>
       ELSE IF chk = "error"
       THEN /\ Raised
            /\ UNCHANGED <<log, entries, wd, processed, inv>>
       ELSE IF ConfOf(st) \notin conf
       THEN /\ Exits(NotConfigured(st))
            /\ Entered(st)
            /\ UNCHANGED <<log, wd, processed, inv>>
       ELSE /\ \E order \in Perms(Eligible) :
                  log' = log \o ExecLoop(st, order, ProcCmdLine(st, n))
            /\ \E written \in SUBSET Eligible :
                  wd' = wd \cup {NewImage(st, f, n) : f \in written}
            /\ processed' = processed \cup Eligible
            /\ Entered(st)
            /\ Advance(st)
            /\ UNCHANGED <<console, boxes>>
    /\ UNCHANGED <<script, run, args, preVars, names, fault, gui, ioVars, argv, conf, workdir, cwd, form,
                   ccin, ccout, originals, phase, todo, compress, pdirs>>

DenoiseSA == ProcSAStage("denoise_SA")

SharpenSA == ProcSAStage("sharpen_SA")

\* The smallest index k >= 1 for which processed_k does not exist.
FreeIndexMutCounts(dirs) == Cardinality(DOMAIN dirs) + 1

\* multiprocess: the first index for which os.path.isdir fails.
FreeIndex(dirs) ==
    CHOOSE k \in 1..(Cardinality(DOMAIN dirs) + 1) :
        k \notin DOMAIN dirs /\ \A j \in 1..(k - 1) : j \in DOMAIN dirs

Multiprocess ==
    /\ script = "proc"
    /\ pc = "multiprocess"
    /\ Entered("multiprocess")
    /\ IF ~ChdirOk
       THEN /\ Raised
            /\ UNCHANGED <<wd, pdirs, inv>>
       ELSE /\ LET idx == FreeIndex(pdirs)
                   moved == {f \in wd : IsImage(f) /\ f \notin originals}
               IN /\ pdirs' = [k \in DOMAIN pdirs \cup {idx} |->
                                  IF k = idx THEN moved ELSE pdirs[k]]
                  /\ wd' = wd \ moved
            /\ Advance("multiprocess")
            /\ UNCHANGED <<console, boxes>>
    /\ UNCHANGED <<script, run, args, log, preVars, names, fault, gui, ioVars, argv, conf, workdir, cwd,
                   form, ccin, ccout, processed, originals, phase, todo, compress>>

----------------------------------------------------------------------------
(* Stage functions of GPS_Postprocess.py                                   *)

PostListed == {f \in wd : IsPostImage(f)}

\* The file loop of a GPS_Postprocess host stage: load, the stage's
\* commands, save over the image itself.
RECURSIVE PostLoop(_, _, _)
PostLoop(st, order, n) ==
    IF order = <<>> THEN <<>>
    ELSE <<Cmd(st, "load", Head(order))>> \o CmdsOf(st, PostCmds(st, n))
         \o <<Cmd(st, "save", Head(order))>>
         \o PostLoop(st, Tail(order), n)

WorkdirBoundMutAlways == TRUE

\* The dispatch evaluates workdir for the call: a NameError when the setup
\* raised before assigning it.
WorkdirBound == fault \notin {"connect", "requires"}

\* A host stage of GPS_Postprocess: os.chdir(workdir), then the file loop.
PostHostStage(st) ==
    /\ script = "post"
    /\ pc = st
    /\ IF ~WorkdirBound
       THEN /\ Crashes
            /\ UNCHANGED <<log, entries, wd, cwd, inv>>
       ELSE IF ~ChdirOk
       THEN /\ Crashes
            /\ Entered(st)
            /\ UNCHANGED <<log, wd, cwd, inv>>
       ELSE /\ \E order \in Perms(PostListed) :
                  LET cs == PostLoop(st, order, args[st][inv]) IN
                  /\ log' = log \o Sent(cs)
                  /\ wd' = wd \cup {HostSave(f, compress) : f \in Finished(order, Returned(cs))}
                  /\ IF Fails(cs)
                     THEN Crashes /\ UNCHANGED inv
                     ELSE Advance(st) /\ UNCHANGED <<console, boxes>>
            /\ cwd' = "wd"
            /\ Entered(st)
    /\ UNCHANGED <<script, run, args, preVars, names, fault, gui, ioVars, argv, conf, workdir, form, ccin,
                   ccout, processed, originals, phase, todo, compress, pdirs>>

PostBkg == PostHostStage("bkg")

PostBkgGraX == PostHostStage("bkg_GraX")

PostSharpen == PostHostStage("sharpen")

PostDenoiseGraX == PostHostStage("denoise_GraX")

PostSharpenGraX == PostHostStage("sharpen_GraX")

\* Number of values the module-level dispatch reads from an option's list.
PostArity(st) == IF st = "sharpen_CC" THEN 3 ELSE 1

\* Entry of denoise_CC / sharpen_CC of GPS_Postprocess.  A -sc list shorter
\* than three raises IndexError outside any try block.
PostCCCall ==
    /\ script = "post"
    /\ pc \in CCStages
    /\ phase = "call"
    /\ IF Len(args[pc][inv]) < PostArity(pc) \/ ~WorkdirBound
       THEN /\ Crashes
            /\ UNCHANGED <<entries, cwd, phase, todo>>
       ELSE IF ConfOf(pc) \notin conf
       THEN /\ Exits(NotConfigured(pc))
            /\ Entered(pc)
            /\ UNCHANGED <<cwd, phase, todo>>
       ELSE IF ~ChdirOk
       THEN /\ Crashes
            /\ Entered(pc)
            /\ UNCHANGED <<cwd, phase, todo>>
       ELSE /\ Entered(pc)
            /\ cwd' = "wd"
            /\ todo' \in Perms(PostListed)
            /\ phase' = "loop"
            /\ UNCHANGED <<pc, console, boxes>>
    /\ UNCHANGED <<script, run, args, log, preVars, names, fault, gui, ioVars, argv, conf, workdir, form,
                   wd, ccin, ccout, processed, originals, inv, compress, pdirs>>

\* One pass of the file loop: copy the image into the input directory and
\* run the executable; nothing is removed.
PostCCStep ==
    /\ script = "post"
    /\ pc \in CCStages
    /\ phase = "loop"
    /\ todo # <<>>
    /\ todo' = Tail(todo)
    /\ ccin' = ccin \cup {Head(todo)}
    /\ log' = Append(log, Exec(pc, Head(todo), ccin', ccout, PostCmdLine(pc, args[pc][inv])))
    /\ \E produced \in ToolRuns(ccin') : ccout' = ccout \cup produced
    /\ UNCHANGED <<script, pc, run, args, entries, preVars, names, fault, gui, ioVars, console, boxes, argv,
                   conf, workdir, cwd, form, wd, processed, originals, inv, phase, compress,
                   pdirs>>

\* shutil.move(image, workdir) for the files of the output directory in the
\* order listed.  A move onto an existing name raises shutil.Error, so the
\* files moved are those listed before the first file whose name exists:
\* all of them when no name exists, otherwise any of the others.
Moved(out, dir) ==
    IF out \cap dir = {} THEN {out} ELSE SUBSET (out \ dir)

\* The name a relative -d operand denotes inside the output directory.
RelName == <<"work">>

\* After the file loop: change into the input directory and empty it, change
\* into the output directory and move every file to workdir.  An absolute
\* workdir is the working directory; a relative one is resolved in the
\* output directory, where no directory of that name exists, so each file
\* is renamed to that name in place.
PostCCReturn ==
    /\ script = "post"
    /\ pc \in CCStages
    /\ phase = "loop"
    /\ todo = <<>>
    /\ ccin' = {}
    /\ cwd' = "ccout"
    /\ phase' = "call"
    /\ IF workdir = "absolute"
       THEN \E moved \in Moved(ccout, wd) :
               /\ wd' = wd \cup moved
               /\ ccout' = ccout \ moved
       ELSE /\ ccout' = IF ccout = {} THEN {} ELSE {RelName}
            /\ UNCHANGED wd
    /\ IF workdir = "absolute" /\ ccout' # {}
       THEN Crashes /\ UNCHANGED inv
       ELSE Advance(pc) /\ UNCHANGED <<console, boxes>>
    /\ UNCHANGED <<script, run, args, log, entries, preVars, names, fault, gui, ioVars, argv, conf,
                   workdir, form, processed, originals, todo, compress, pdirs>>

\* The same command line is run once more on the directory the first run left.
EnhRerun ==
    /\ script \in {"proc", "post"}
    /\ pc = "done"
    /\ run = 1
    /\ Len(argv) + Cardinality(wd) <= MaxLoad
    /\ run' = 2
    /\ pc' = "setup"
    /\ inv' = 0
    /\ processed' = {}
    /\ originals' = {}
    /\ cwd' = "launch"
    /\ UNCHANGED <<script, args, log, entries, preVars, names, fault, gui, ioVars, console, boxes, argv, conf,
                   workdir, form, wd, ccin, ccout, phase, todo, compress, pdirs>>

NextEnh ==
    \/ GuiAccept
    \/ GuiReject
    \/ EnhSetup
    \/ Abe
    \/ Bkg
    \/ BkgGraX
    \/ Spcc
    \/ Sharpen
    \/ ProcCCCall
    \/ ProcCCStep
    \/ ProcCCReturn
    \/ SharpenGraX
    \/ SharpenSA
    \/ Denoise
    \/ DenoiseSA
    \/ DenoiseGraX
    \/ Autostretch
    \/ Statstretch
    \/ Multiprocess
    \/ PostBkg
    \/ PostBkgGraX
    \/ PostSharpen
    \/ PostCCCall
    \/ PostCCStep
    \/ PostCCReturn
    \/ PostDenoiseGraX
    \/ PostSharpenGraX
    \/ EnhRerun
    \/ RunGuiReturns

SpecEnh == InitEnh /\ [][NextEnh]_vars

----------------------------------------------------------------------------
(* One external-executable stage, step by step: the subprocess, the read   *)
(* loop over its output, process.wait() and the file handling after it     *)

MaxLine == 3
MaxOut == 2
MaxChars == 3

\* The characters of an output line: a digit, the dot, the percent sign,
\* white space, any other character.
Chars == {"5", ".", "%", " ", "x"}

Digits == {"5"}

OutLines == UNION {[1..k -> Chars] : k \in 0..MaxLine}

\* Longer lines: a percentage with decimals, text around a percentage.
LongLines == {<<"5", ".", "5", "%">>, <<"x", " ", "5", "%", " ">>, <<"5", ".", "5", "5">>,
              <<"5", ".", "5", ".", "5", "%">>}

\* str.strip()
RECURSIVE LStrip(_)
LStrip(l) == IF l # <<>> /\ Head(l) = " " THEN LStrip(Tail(l)) ELSE l

RECURSIVE RStrip(_)
RStrip(l) == IF l # <<>> /\ l[Len(l)] = " " THEN RStrip(SubSeq(l, 1, Len(l) - 1)) ELSE l

Strip(l) == RStrip(LStrip(l))

\* (\d+\.?\d*)% matches l[i..p-1] followed by the percent sign at p.
NumberAt(l, i, p) ==
    /\ i < p /\ p <= Len(l)
    /\ l[p] = "%"
    /\ \E d \in i..(p - 1) :
          /\ \A j \in i..d : l[j] \in Digits
          /\ \/ d = p - 1
             \/ /\ l[d + 1] = "."
                /\ \A j \in (d + 2)..(p - 1) : l[j] \in Digits

\* percent_re.search(line): group 1 of the leftmost match, <<>> for None.
PercentSearch(l) ==
    LET starts == {i \in DOMAIN l : \E p \in DOMAIN l : NumberAt(l, i, p)} IN
    IF starts = {} THEN <<>>
    ELSE LET i == CHOOSE x \in starts : \A y \in starts : x <= y
             p == CHOOSE q \in DOMAIN l : NumberAt(l, i, q)
         IN SubSeq(l, i, p - 1)

DigitVal(c) == IF c = "5" THEN 5 ELSE 0

RECURSIVE IntOf(_)
IntOf(ds) == IF ds = <<>> THEN 0 ELSE 10 * IntOf(SubSeq(ds, 1, Len(ds) - 1)) + DigitVal(ds[Len(ds)])

\* float(text) as the decimal num / 10^exp.
Float(g) ==
    LET ds == SelectSeq(g, LAMBDA c : c \in Digits)
        dots == {i \in DOMAIN g : g[i] = "."}
    IN [num |-> IntOf(ds),
        exp |-> IF dots = {} THEN 0 ELSE Len(g) - (CHOOSE i \in dots : TRUE)]

\* pct / 100.0
Hundredth(v) == [num |-> v.num, exp |-> v.exp + 2]

\* The first argument of update_progress.
ProgressLabel(sc, st) ==
    IF sc = "post" THEN (IF st = "denoise_CC" THEN "Denoise: {pct:.2f}%" ELSE "Sharpen: {pct:.2f}%")
    ELSE CASE st = "denoise_CC" -> "Denoise:"
           [] st = "denoise_SA" -> "Denoise"
           [] OTHER -> "Sharpen"

\* The body of the read loop for one line read from the pipe.
HandleLine(sc, st, raw) ==
    LET line == Strip(raw)
        m == PercentSearch(line)
    IN IF line = <<>> THEN <<>>
       ELSE IF m # <<>>
       THEN <<[fn |-> "update_progress", label |-> ProgressLabel(sc, st),
               pct |-> Float(m), value |-> Hundredth(Float(m)), text |-> <<>>]>>
       ELSE <<[fn |-> "log", label |-> "", pct |-> <<>>, value |-> <<>>, text |-> line]>>

\* The stages that start an executable, one command line for each.
StreamArgvs(sc) ==
    IF sc = "proc"
    THEN {<<[flag |-> "-dc", n |-> <<<<"full">>, <<"0", "5">>>>]>>,
          <<[flag |-> "-sc", n |-> <<<<"Both">>, <<"0", "5">>, <<"0", "5">>, <<"5">>>>]>>,
          <<[flag |-> "-dsa", n |-> <<<<"full">>, <<"0", "5">>, <<"0", "5">>>>]>>,
          <<[flag |-> "-ssa", n |-> <<<<"Both">>, <<"0", "5">>, <<"0", "5">>>>]>>}
    ELSE {<<[flag |-> "-dc", n |-> <<<<"0", "5">>>>]>>,
          <<[flag |-> "-sc", n |-> <<<<"0", "5">>, <<"0", "5">>, <<"5">>>>]>>}

\* The stage function has reached its file loop in the working directory.
InitStream ==
    /\ script \in {"proc", "post"}
    /\ argv \in StreamArgvs(script)
    /\ args = Parse(script, argv)
    /\ pc = StageOf(argv[1].flag)
    /\ inv = 1
    /\ run = 1
    /\ wd \in {{M31}, {M31, <<"n", "fits">>}}
    /\ todo \in Perms(wd)
    /\ phase = "spawn"
    /\ ccin = {} /\ ccout = {}
    /\ processed = {} /\ originals = wd
    /\ compress = FALSE /\ pdirs = <<>>
    /\ conf = ConfFiles /\ workdir = "absolute" /\ cwd = "wd" /\ form = <<>>
    /\ fault = "none"
    /\ console = <<>>
    /\ log = <<>>
    /\ entries = <<>> /\ markers = <<>> /\ frames = <<>> /\ sess = 0 /\ nextv = 0
    /\ nlights = <<>> /\ object = Empty /\ renames = <<>>
    /\ names = <<>>
    /\ StreamIdle
    /\ gui = FALSE /\ boxes = <<>>

StreamFrame ==
    UNCHANGED <<script, pc, run, args, log, entries, fault, gui, console, boxes, preVars, names, argv,
                originals, inv, compress, pdirs, conf, workdir, form>>

\* subprocess.Popen: GPS_Postprocess has copied the image into the input
\* directory, GPS_Process does so for its Cosmic Clarity stages.
Spawn ==
    /\ phase = "spawn"
    /\ todo # <<>>
    /\ ccin' = IF pc \in CCStages THEN ccin \cup {Head(todo)} ELSE ccin
    /\ child' = "running"
    /\ phase' = "read"
    /\ StreamFrame
    /\ UNCHANGED <<wd, ccout, processed, todo, cwd, pipe, emitted, callbacks>>

\* The number of characters in the lines written so far.
RECURSIVE Written(_)
Written(ls) == IF ls = <<>> THEN 0 ELSE Len(Head(ls)) + Written(Tail(ls))

\* The subprocess writes one line to its standard output or standard error.
ChildWrite ==
    /\ child = "running"
    /\ Len(emitted) < MaxOut
    /\ \E l \in OutLines \cup LongLines :
          /\ \/ Len(l) + Written(emitted) <= MaxChars
             \/ l \in LongLines /\ Written(emitted) = 0
          /\ pipe' = Append(pipe, l)
          /\ emitted' = Append(emitted, l)
    /\ StreamFrame
    /\ UNCHANGED <<wd, ccin, ccout, processed, todo, phase, cwd, child, callbacks>>

\* The subprocess writes its result: a Cosmic Clarity executable into its
\* output directory, setiastrosuitepro to the -o name in the current directory.
ChildProduce ==
    /\ child \in {"running", "closed"}
    /\ IF pc \in CCStages
       THEN /\ ccout' = ccout \cup {ToolOutput(Head(todo))}
            /\ UNCHANGED wd
       ELSE /\ wd' = wd \cup {NewImage(pc, Head(todo), args[pc][inv])}
            /\ UNCHANGED ccout
    /\ (ccout' # ccout \/ wd' # wd)
    /\ StreamFrame
    /\ UNCHANGED <<ccin, processed, todo, phase, cwd, child, pipe, emitted, callbacks>>

\* The subprocess closes its output streams and goes on running.
ChildClose ==
    /\ child = "running"
    /\ child' = "closed"
    /\ StreamFrame
    /\ UNCHANGED <<wd, ccin, ccout, processed, todo, phase, cwd, pipe, emitted, callbacks>>

ChildExit ==
    /\ child \in {"running", "closed"}
    /\ child' = "exited"
    /\ StreamFrame
    /\ UNCHANGED <<wd, ccin, ccout, processed, todo, phase, cwd, pipe, emitted, callbacks>>

\* for line in iter(process.stdout.readline, ''): one line is available.
ReadLine ==
    /\ phase = "read"
    /\ pipe # <<>>
    /\ callbacks' = callbacks \o HandleLine(script, pc, Head(pipe))
    /\ pipe' = Tail(pipe)
    /\ StreamFrame
    /\ UNCHANGED <<wd, ccin, ccout, processed, todo, phase, cwd, child, emitted>>

\* readline returns '': every write end of the pipe is closed.
ReadEof ==
    /\ phase = "read"
    /\ pipe = <<>>
    /\ child \in {"closed", "exited"}
    /\ phase' = "wait"
    /\ StreamFrame
    /\ UNCHANGED <<wd, ccin, ccout, processed, todo, cwd, child, pipe, emitted, callbacks>>

WaitReturnsMutAtOnce == TRUE

\* process.wait() returns when the subprocess has exited.
WaitReturns == child = "exited"

AfterImageMutStops == "done"

AfterImage == IF Len(todo) > 1 THEN "spawn" ELSE "done"

\* process.wait(), then what the loop body does after it.
Wait ==
    /\ phase = "wait"
    /\ WaitReturns
    /\ IF script = "proc" /\ pc \in CCStages
       THEN \* empty the input directory, move the output, back to workdir
            /\ ccin' = {}
            /\ ccout' = {}
            /\ wd' = IF ccout = {} THEN wd
                     ELSE wd \cup {NewImage(pc, Head(todo), args[pc][inv])}
            /\ processed' = IF ccout = {} THEN processed
                            ELSE processed \cup {Head(todo)}
            /\ todo' = Tail(todo)
            /\ phase' = AfterImage
       ELSE IF script = "proc"
       THEN /\ processed' = processed \cup {Head(todo)}
            /\ todo' = Tail(todo)
            /\ phase' = AfterImage
            /\ UNCHANGED <<wd, ccin, ccout>>
       ELSE /\ todo' = Tail(todo)
            /\ phase' = IF Len(todo) > 1 THEN "spawn" ELSE "clean"
            /\ UNCHANGED <<wd, ccin, ccout, processed>>
    /\ StreamFrame
    /\ UNCHANGED <<cwd, child, pipe, emitted, callbacks>>

\* GPS_Postprocess after the file loop: empty the input directory, move the
\* files of the output directory to workdir.
Clean ==
    /\ script = "post"
    /\ phase = "clean"
    /\ ccin' = {}
    /\ cwd' = "ccout"
    /\ \E moved \in Moved(ccout, wd) :
          /\ wd' = wd \cup moved
          /\ ccout' = ccout \ moved
    /\ phase' = "done"
    /\ StreamFrame
    /\ UNCHANGED <<processed, todo, child, pipe, emitted, callbacks>>

NextStream ==
    \/ Spawn
    \/ ChildWrite
    \/ ChildProduce
    \/ ChildClose
    \/ ChildExit
    \/ ReadLine
    \/ ReadEof
    \/ Wait
    \/ Clean

SpecStream == InitStream /\ [][NextStream]_vars

----------------------------------------------------------------------------
(* The three scripts together                                              *)

InitAll == InitPre \/ InitEnh

NextAll == NextPre \/ NextEnh

SpecAll == InitAll /\ [][NextAll]_vars

----------------------------------------------------------------------------
(* The names the scripts derive for their results                          *)

MaxNames == 2

\* Parameter tuples beyond those of ProcOptions: a mode that ends in a
\* digit, another sensor and filter.
ExtraTuples ==
    {[st |-> "denoise_CC", n |-> <<<<"full0">>, <<"", "5">>>>],
     [st |-> "spcc", n |-> <<<<"IMX533">>, <<"L-Pro">>>>]}

\* The stage calls whose newimage is computed: every option main_logic accepts.
NameInputs ==
    {[st |-> StageOf(o.flag), n |-> o.n] :
        o \in {q \in ProcOptions : /\ StageOf(q.flag) # "multiprocess"
                                   /\ TupleCheck(StageOf(q.flag), q.n) = "ok"}}
    \cup ExtraTuples

\* The command lines of one session whose stack name is computed.
StackInputs ==
    {Namespace(f, v) : f \in {g \in Flags : g.multi = 0}, v \in {NoValues, SomeValues}}

InitNames ==
    /\ script = "names"
    /\ pc = "idle"
    /\ run = 1
    /\ args = <<>>
    /\ fault = "none"
    /\ StreamIdle
    /\ gui = FALSE /\ boxes = <<>>
    /\ console = <<>>
    /\ log = <<>>
    /\ entries = <<>> /\ markers = <<>> /\ frames = <<>> /\ sess = 0 /\ nextv = 0
    /\ nlights = <<>> /\ object = <<"M31">> /\ renames = <<>>
    /\ EnhIdle
    /\ names = <<>>

\* newimage of one GPS_Process stage call for m31.fit.
DeriveName ==
    /\ script = "names"
    /\ Len(names) < MaxNames
    /\ \E c \in NameInputs :
          names' = Append(names, [script |-> "proc", st |-> c.st, key |-> c.n,
                                  name |-> NewImage(c.st, M31, c.n)])
    /\ UNCHANGED <<script, pc, run, args, log, entries, preVars, enhVars, fault, gui, ioVars, console, boxes>>

\* The -out= operand GPS_Preprocess gives the final stack for one command line.
StackName ==
    /\ script = "names"
    /\ Len(names) < MaxNames
    /\ \E a \in StackInputs :
          names' = Append(names, [script |-> "pre", st |-> "stack", key |-> a,
                                  name |-> StackOut(object, a)])
    /\ UNCHANGED <<script, pc, run, args, log, entries, preVars, enhVars, fault, gui, ioVars, console, boxes>>

NextNames ==
    \/ DeriveName
    \/ StackName

SpecNames == InitNames /\ [][NextNames]_vars

----------------------------------------------------------------------------
(* Claims about GPS_Preprocess.py                                          *)

IssuedBy(e) ==
    LET cs == SelectSeq(log, LAMBDA c : c.st = e.st /\ c.w = e.w /\ c.run = e.run)
    IN [i \in 1..Len(cs) |-> cs[i].verb]

RunVerbs(r) == {log[i].verb : i \in {j \in DOMAIN log : log[j].run = r}}

CountVerb(r, v) == Cardinality({j \in DOMAIN log : log[j].run = r /\ log[j].verb = v})

C1_Marker(st, bg) ==
    CASE st = "master_bias" -> {"bias_stacked.fit", "bias_stacked.fit.fz"}
      [] st = "master_flat" -> {"pp_flat_stacked.fit", "pp_flat_stacked.fit.fz"}
      [] st = "master_dark" -> {"dark_stacked.fit", "dark_stacked.fit.fz"}
      [] st = "light" -> {"pp_light_.seq"}
      [] st = "bkg_extract" -> {"bkg_pp_light_.seq"}
      [] st = "platesolve" -> IF bg THEN {"r_bkg_pp_light_.seq"} ELSE {"r_pp_light_.seq"}

C1_Full(st) ==
    CASE st = "master_bias" -> <<"cd", "convert", "cd", "stack">>
      [] st = "master_flat" -> <<"cd", "convert", "cd", "calibrate", "stack">>
      [] st = "master_dark" -> <<"cd", "convert", "cd", "stack">>
      [] st = "light" -> <<"cd", "convert", "cd", "calibrate">>
      [] st = "bkg_extract" -> <<"cd", "seqsubsky">>
      [] st = "platesolve" -> <<"cd", "seqplatesolve">>

C1_Stages ==
    {"master_bias", "master_flat", "master_dark", "light", "bkg_extract", "platesolve"}

\* C1: a stage of GPS_Preprocess that finds its completion marker under
\* <workdir>/process when it is entered issues no host command; one that does
\* not find it issues its full command sequence, once (no command of the
\* stage raising an error).
C1_SkipIffMarker ==
    \A i \in DOMAIN entries :
        LET e == entries[i] IN
        (e.st \in C1_Stages /\ \A k \in DOMAIN IssuedBy(e) : IssuedBy(e)[k] # fault) =>
            IssuedBy(e) = IF (C1_Marker(e.st, args.bkg) \cap e.before) # {}
                          THEN <<>> ELSE C1_Full(e.st)

C1_Witness ==
    /\ script = "pre" /\ pc = "done" /\ run = 1 /\ args.bkg
    /\ \E i, j \in DOMAIN entries :
          /\ entries[i].st = "platesolve"
          /\ "r_bkg_pp_light_.seq" \in entries[i].before
          /\ IssuedBy(entries[i]) = <<>>
          /\ entries[j].st = "master_bias"
          /\ IssuedBy(entries[j]) = <<"cd", "convert", "cd", "stack">>

\* C2 as stated: a second run with the same arguments, after a first run that
\* completed, sends no convert, calibrate, stack, seqsubsky, seqplatesolve,
\* register or seqapplyreg command.
C2_RerunIssuesNothing ==
    (script = "pre" /\ run = 2 /\ pc = "done") =>
        RunVerbs(2) \cap {"convert", "calibrate", "stack", "seqsubsky", "seqplatesolve",
                          "register", "seqapplyreg"} = {}

\* C2 amended: the second run sends no convert, calibrate, seqsubsky or
\* seqplatesolve command and stacks no master; registration and the final
\* stack have no marker and are sent again, each once (register -2pass only
\* without -ps).
C2_RerunOnlyRegistersAndStacks ==
    /\ \A i \in DOMAIN log :
          log[i].run = 2 =>
              /\ log[i].verb \notin {"convert", "calibrate", "seqsubsky", "seqplatesolve"}
              /\ log[i].verb = "stack" => log[i].st = "stack"
    /\ (script = "pre" /\ run = 2 /\ pc = "done") =>
          /\ CountVerb(2, "seqapplyreg") = 1
          /\ CountVerb(2, "stack") = 1
          /\ CountVerb(2, "register") = IF args.ps = "none" THEN 1 ELSE 0

C2_Witness ==
    /\ script = "pre" /\ run = 2 /\ pc = "done"
    /\ ~args.nc /\ args.bkg /\ args.ps # "none"
    /\ CountVerb(1, "convert") >= 3
    /\ CountVerb(1, "seqplatesolve") = 1

\* C8 as stated: every frame moved into the first session's process directory
\* gets an index above every pp_light index present there at that moment, and
\* the assigned indices are pairwise distinct.
C8_MergedIndicesAreFresh ==
    /\ \A i \in DOMAIN renames :
          \A d \in renames[i].dstBefore : ParseIdx(renames[i].new) > ParseIdx(d)
    /\ \A i, j \in DOMAIN renames : i # j => renames[i].new # renames[j].new

----------------------------------------------------------------------------
(* Claims about GPS_Process.py and GPS_Postprocess.py                      *)

C3_Case ==
    /\ argv = <<[flag |-> "-b", n |-> <<<<"0", "5">>>>]>>
    /\ M31 \in wd
    /\ <<"n", "fits">> \notin wd
    /\ <<"c", "fit", "fz">> \notin wd
    /\ <<"m31", "fits">> \notin wd

C3_Subsky == <<"-rbf -samples=20 -tolerance=1", "0 -smooth=0", "5">>

\* The load, subsky and save commands of run r, in the order sent.
C3_Work(r) ==
    LET cs == SelectSeq(log, LAMBDA c : c.run = r /\ c.verb \in {"load", "subsky", "save"})
    IN [i \in DOMAIN cs |-> <<cs[i].verb, cs[i].arg>>]

C3_Saved(r) == {log[i].arg : i \in {j \in DOMAIN log : log[j].run = r /\ log[j].verb = "save"}}

C3_Loaded(r) == {log[i].arg : i \in {j \in DOMAIN log : log[j].run = r /\ log[j].verb = "load"}}

C_SharpenFamily == {"sharpen", "sharpen_CC", "sharpen_GraX", "sharpen_SA"}

C_DenoiseFamily == {"denoise", "denoise_CC", "denoise_SA", "denoise_GraX"}

\* Within every run, no command or subprocess of a sharpen stage comes after
\* one of a denoise stage.
C_SharpenFirst ==
    \A i, j \in DOMAIN log :
        (i < j /\ log[i].run = log[j].run /\ log[i].st \in C_DenoiseFamily)
            => log[j].st \notin C_SharpenFamily

\* C4: in GPS_Process every host command and subprocess invocation of every
\* sharpen stage (-s, -sc, -sg, -ssa) is issued before the first one of any
\* denoise stage (-ds, -dc, -dsa, -dg), whatever the order of the flags.
C4_ProcessSharpensFirst == script = "proc" => C_SharpenFirst

C4_Witness ==
    /\ script = "proc" /\ pc = "done" /\ Len(argv) = 2
    /\ StageOf(argv[1].flag) \in C_DenoiseFamily
    /\ StageOf(argv[2].flag) \in C_SharpenFamily
    /\ \E i, j \in DOMAIN log :
          i < j /\ log[i].st \in C_SharpenFamily /\ log[j].st \in C_DenoiseFamily

\* C5 as stated: in GPS_Postprocess every host command and subprocess
\* invocation of a sharpen stage (-s, -sc, -sg) is issued before any of a
\* denoise stage (-dc, -dg), whatever the order of the flags.
C5_PostprocessSharpensFirst == script = "post" => C_SharpenFirst

\* C9 as stated: at each invocation of the executable by denoise_CC or
\* sharpen_CC of GPS_Process the input directory holds exactly the image
\* being processed and the output directory holds no file from before.
C9_ProcessDirsCleanAtExec ==
    \A i \in DOMAIN log :
        (script = "proc" /\ log[i].verb = "exec" /\ log[i].st \in CCStages) =>
            /\ log[i].indir = {log[i].arg}
            /\ log[i].outdir = {}

\* C10 as stated: with two images in the working directory and an input
\* directory that starts empty, at each invocation of the executable by
\* denoise_CC or sharpen_CC of GPS_Postprocess the input directory holds only
\* the image copied for that invocation.
C10_PostprocessInputCleanAtExec ==
    \A i \in DOMAIN log :
        (/\ script = "post" /\ log[i].verb = "exec" /\ log[i].st \in CCStages
         /\ <<"n", "fits">> \in wd /\ Stale \notin log[i].indir) =>
            log[i].indir = {log[i].arg}

----------------------------------------------------------------------------
(* Claims about derived names                                              *)

\* C6 as stated: for m31.fit, two GPS_Process stage calls that differ in the
\* stage or in the parameter tuple never derive the same output name.
C6_ProcessNamesInjective ==
    \A i, j \in DOMAIN names :
        (/\ names[i].script = "proc" /\ names[j].script = "proc"
         /\ <<names[i].st, names[i].key>> # <<names[j].st, names[j].key>>)
            => names[i].name # names[j].name

\* C7 as stated: two GPS_Preprocess command lines on the same data that
\* differ in any setting (filters, drizzle, feather, -bg, -ps or focal
\* length, -nc) request different names in stack ... -out=.
C7_StackNamesDiffer ==
    \A i, j \in DOMAIN names :
        (/\ names[i].script = "pre" /\ names[j].script = "pre"
         /\ names[i].key # names[j].key)
            => names[i].name # names[j].name

----------------------------------------------------------------------------
(* Claims about the tool directories and the configuration files           *)

\* C11 as stated: when denoise_CC or sharpen_CC of GPS_Process or
\* GPS_Postprocess returns normally, the tool's input directory and its
\* output directory are both empty, also when neither held a file from
\* before the run.
C11_ToolDirsEmptyAfterStage ==
    [][(/\ pc \in CCStages /\ phase = "loop" /\ phase' = "call"
        /\ pc' \notin {"crash", "error", "exit"}
        /\ Stale \notin ccin \cup ccout)
          => (ccin' = {} /\ ccout' = {})]_vars

C12_Conf ==
    [denoise_CC |-> "sirilcc_denoise.conf", sharpen_CC |-> "sirilcc_sharpen.conf",
     denoise_SA |-> "sirilcc_saspro.conf", sharpen_SA |-> "sirilcc_saspro.conf"]

\* C12: when an external-executable stage (denoise_CC, sharpen_CC,
\* denoise_SA, sharpen_SA) is entered while its configuration file is
\* absent, it prints the 'not configured' message and the process exits
\* with status 1; the stage copies, moves and deletes no file, starts no
\* subprocess and sends no host command.
C12_AbsentConfigExitsUntouched ==
    [][(/\ entries' # entries
        /\ Last(entries').st \in DOMAIN C12_Conf
        /\ C12_Conf[Last(entries').st] \notin conf)
          => (/\ pc' = "exit"
              /\ console' = Append(console, NotConfigured(Last(entries').st))
              /\ UNCHANGED <<log, wd, ccin, ccout, pdirs>>)]_vars

C12_Witness ==
    /\ pc = "exit"
    /\ console = <<NotConfigured("sharpen_CC")>>
    /\ entries # <<>>
    /\ Last(entries).st = "sharpen_CC"
    /\ "sirilcc_sharpen.conf" \notin conf
    /\ ccin = {Stale}
    /\ M31 \in wd

\* C13 as stated: when a run ends because the configuration file of a
\* requested external-executable stage is absent, the run has saved no image
\* and started no executable: no file of the working directory was created
\* or modified before the abort, whatever other stages were requested.
C13_AbsentConfigAbortsBeforeAnyFile ==
    (pc = "exit" /\ console # <<>> /\ Last(console) \in {NotConfigured(st) : st \in DOMAIN C12_Conf}) =>
        \A i \in DOMAIN log : log[i].run = run => log[i].verb \notin {"save", "exec"}

----------------------------------------------------------------------------
(* Claims about the sharpen parameters                                     *)

\* The command lines of the executable that stage st of GPS_Process started.
C_CmdLines(st) ==
    {log[i].cl : i \in {j \in DOMAIN log : log[j].verb = "exec" /\ log[j].st = st}}

\* C14: in GPS_Process every Cosmic Clarity sharpen command line with mode
\* 'Stellar Only' carries nonstellar_amount 0 and nonstellar_strength 0,
\* whatever values followed the stellar amount, and every one with mode
\* 'Non-Stellar Only' carries stellar_amount 0.
C14_UnusedSharpenValuesAreZero ==
    script = "proc" =>
        \A c \in C_CmdLines("sharpen_CC") :
            /\ c.sharpening_mode = <<"Stellar Only">> =>
                  c.nonstellar_amount = <<"0">> /\ c.nonstellar_strength = <<"0">>
            /\ c.sharpening_mode = <<"Non-Stellar Only">> => c.stellar_amount = <<"0">>

C14_Witness ==
    /\ script = "proc" /\ form = <<>> /\ pc = "done" /\ Len(argv) = 2
    /\ argv[1].n = <<<<"Stellar Only">>, <<"0", "3">>, <<"0", "7">>, <<"9">>>>
    /\ argv[2].n = <<<<"Non-Stellar Only">>, <<"0", "7">>, <<"9">>>>
    /\ Cardinality(C_CmdLines("sharpen_CC")) = 2

\* C15 as stated: when GPS_Process is run from its dialog, each of stellar
\* amount, non-stellar amount and non-stellar strength on the command line
\* of Cosmic Clarity sharpen or Setiastro CC sharpen equals the text of the
\* field of that name, for every field the chosen mode enables.
C15_GuiFieldsReachCommandLine ==
    (script = "proc" /\ form # <<>>) =>
        /\ \A c \in C_CmdLines("sharpen_CC") :
              LET on == EnabledFields(form.sharpen_cc_mode) IN
              /\ "stellar_amount" \in on =>
                    c.stellar_amount = FieldText.sharpen_cc_stellar_amount
              /\ "non_stellar_amount" \in on =>
                    c.nonstellar_amount = FieldText.sharpen_cc_non_stellar_amount
              /\ "non_stellar_strength" \in on =>
                    c.nonstellar_strength = FieldText.sharpen_cc_non_stellar_strength
        /\ \A c \in C_CmdLines("sharpen_SA") :
              LET on == EnabledFields(form.sharpen_ssa_mode) IN
              /\ "stellar_amount" \in on =>
                    c.stellar_amount = FieldText.sharpen_ssa_stellar_amount
              /\ "non_stellar_amount" \in on =>
                    c.nonstellar_amount = FieldText.sharpen_ssa_non_stellar_amount

----------------------------------------------------------------------------
(* Claims about errors                                                     *)

\* C16: in all three scripts, when siril.connect() or the 'requires 1.3.6'
\* handshake raises, the error is printed, no command other than those of
\* the setup is ever sent, no executable is started, and no file of the
\* working, tool, process or processed_N directories is created, moved or
\* deleted.
C16_NoStageAfterFailedConnection ==
    /\ []((fault \in {"connect", "requires"} /\ pc \notin {"setup", "dialog", "closed"}) =>
            /\ \E i \in DOMAIN console : console[i] = ErrorReport
            /\ \A i \in DOMAIN log : log[i].st = "setup"
            /\ Len(log) <= 1)
    /\ [][(fault \in {"connect", "requires"}) =>
            (UNCHANGED <<wd, ccin, ccout, pdirs, markers, frames, renames>>)]_vars

C16_Witness ==
    /\ script = "post" /\ fault = "requires" /\ pc = "crash"
    /\ console = <<ErrorReport, "Traceback">>
    /\ Len(log) = 1 /\ log[1].verb = "requires"
    /\ Len(argv) = 2

\* The mode strings a sharpen stage of GPS_Process acts on.
C17_Supported(st) ==
    IF st = "sharpen_GraX" THEN {<<"both">>, <<"object">>, <<"stellar">>}
    ELSE {<<"Both">>, <<"Non-Stellar Only">>, <<"Stellar Only">>}

\* C17 as stated: in GPS_Process a sharpen stage invocation (-sc, -ssa, -sg)
\* whose mode string is unsupported sends no host command, starts no
\* executable and saves no file: every logged command or executable run of
\* a sharpen stage belongs to an invocation with a supported mode.
C17_UnsupportedModeIssuesNothing ==
    script = "proc" =>
        \A i \in DOMAIN log :
            log[i].st \in {"sharpen_CC", "sharpen_SA", "sharpen_GraX"} =>
                \A j \in DOMAIN entries :
                    (/\ entries[j].st = log[i].st /\ entries[j].run = log[i].run
                     /\ entries[j].k = log[i].k /\ entries[j].n # <<>>)
                        => entries[j].n[1] \in C17_Supported(log[i].st)

----------------------------------------------------------------------------
(* Claims about the stage sequence                                         *)

\* The log entries that take a file as the input of a stage invocation.
C18_Inputs == {i \in DOMAIN log : log[i].st # "setup" /\ log[i].verb \in {"load", "exec"}}

\* C18 as stated: in GPS_Process, within one run, no file name is loaded or
\* submitted to an executable by two different stage invocations.
C18_NoFileIsInputTwice ==
    script = "proc" =>
        \A i, j \in C18_Inputs :
            (log[i].run = log[j].run /\ log[i].arg = log[j].arg) =>
                (log[i].st = log[j].st /\ log[i].k = log[j].k)

\* The parameter tuples given with the option of stage st, in the order of
\* the command line.
C19_Given(st) ==
    LET given == SelectSeq(argv, LAMBDA o : StageOf(o.flag) = st)
    IN [i \in DOMAIN given |-> given[i].n]

\* The calls of stage function st in the current run, in the order made.
C19_Calls(st) == SelectSeq(entries, LAMBDA e : e.run = run /\ e.st = st)

C19_Rank(st) == IndexOf(ProcOrder, st)

C19_Repeatable ==
    {"abe", "bkg", "bkg_GraX", "denoise_CC", "denoise_SA", "denoise_GraX", "sharpen_CC",
     "sharpen_GraX", "sharpen_SA", "statstretch"}

\* C19: at the end of a run of GPS_Process, the stage function of an option
\* given k times has been called exactly k times, the i-th call with the
\* i-th tuple given, and calls and commands follow the fixed stage order, so
\* that every call of a stage precedes the first call of any later stage.
C19_RepeatedFlagsRunInOrder ==
    (script = "proc" /\ pc = "done") =>
        /\ \A st \in C19_Repeatable :
              /\ Len(C19_Calls(st)) = Len(C19_Given(st))
              /\ \A i \in DOMAIN C19_Calls(st) :
                    C19_Calls(st)[i].n = C19_Given(st)[i] /\ C19_Calls(st)[i].k = i
        /\ \A i, j \in DOMAIN entries :
              (i < j /\ entries[i].run = run /\ entries[j].run = run) =>
                  C19_Rank(entries[i].st) <= C19_Rank(entries[j].st)
        /\ \A i, j \in DOMAIN log :
              (i < j /\ log[i].run = run /\ log[j].run = run /\ log[i].st # "setup") =>
                  /\ log[j].st # "setup"
                  /\ C19_Rank(log[i].st) <= C19_Rank(log[j].st)
                  /\ log[i].st = log[j].st => log[i].k <= log[j].k

C19_Witness ==
    /\ script = "proc" /\ pc = "done" /\ argv \in Interleaved /\ argv[1].flag = "-b"
    /\ Len(C19_Calls("bkg")) = 2
    /\ C19_Calls("bkg")[2].n = <<<<"0", "9">>>>
    /\ <<"m31_b0", "5_b0", "9", "fit">> \in wd /\ Cardinality(wd) = 4

\* The place of a stage function of GPS_Preprocess in the fixed order.
C20_Rank(st) ==
    CASE st = "setup" -> 0
      [] st = "master_bias" -> 1
      [] st = "master_flat" -> 2
      [] st = "master_dark" -> 3
      [] st \in {"light", "light_nc"} -> 4
      [] st = "bkg_extract" -> 5
      [] st = "platesolve" -> 6
      [] st = "register" -> 7
      [] st = "stack" -> 8
      [] OTHER -> 9

C20_Of(r) == SelectSeq(log, LAMBDA c : c.run = r)

C20_At(r, v) == {i \in DOMAIN C20_Of(r) : C20_Of(r)[i].verb = v}

C20_FinalStack(r) ==
    {i \in DOMAIN C20_Of(r) : C20_Of(r)[i].verb = "stack" /\ C20_Of(r)[i].st = "stack"}

C20_Ordered(r) ==
    LET cs == C20_Of(r) IN
    /\ \A i, j \in DOMAIN cs :
          i < j =>
            \* sessions in turn, and bias, flat, dark, light within a session
            /\ (C20_Rank(cs[i].st) <= 4 /\ C20_Rank(cs[j].st) <= 4) =>
                   \/ cs[i].w < cs[j].w
                   \/ cs[i].w = cs[j].w /\ C20_Rank(cs[i].st) <= C20_Rank(cs[j].st)
            \* calibration, background extraction, platesolve, registration, stack
            /\ (C20_Rank(cs[i].st) > 4 \/ C20_Rank(cs[j].st) > 4) =>
                   C20_Rank(cs[i].st) <= C20_Rank(cs[j].st)
            /\ cs[i].verb \in {"register", "seqapplyreg"} =>
                   cs[j].verb \notin {"convert", "calibrate", "seqsubsky"}
    /\ \A i \in C20_FinalStack(r), j \in C20_At(r, "seqapplyreg") : j < i

C20_Complete(r) ==
    /\ Cardinality(C20_At(r, "seqapplyreg")) = 1
    /\ Cardinality(C20_At(r, "register")) <= 1
    /\ Cardinality(C20_FinalStack(r)) = 1

\* C20: the host commands of a run of GPS_Preprocess follow the order master
\* bias, master flat, master dark, light calibration (session by session,
\* each merge before the stages after calibration), background extraction,
\* platesolve, registration, stack; no register or seqapplyreg precedes a
\* calibration or background-extraction command, the final stack follows
\* seqapplyreg, and a run that ends normally has issued seqapplyreg and the
\* final stack exactly once each.
C20_PreprocessStageOrder ==
    /\ [](script = "pre" =>
            /\ \A r \in 1..run : C20_Ordered(r)
            /\ \A r \in 1..run : (r < run \/ pc = "done") => C20_Complete(r))
    /\ [][(script = "pre" /\ renames' # renames) =>
            (\A i \in DOMAIN log : log[i].run = run => C20_Rank(log[i].st) <= 4)]_vars

C20_Witness ==
    /\ script = "pre" /\ pc = "done" /\ run = 1
    /\ args.multi = 2 /\ args.bkg /\ args.ps = "530"
    /\ renames # <<>>
    /\ Cardinality(C20_At(1, "calibrate")) = 4
    /\ C20_At(1, "seqsubsky") # {} /\ C20_At(1, "seqplatesolve") # {}

----------------------------------------------------------------------------
(* Claims about the subprocess of an external-executable stage             *)

\* A decimal number as the progress lines carry it: digits, then at most one
\* dot among further digits.
C21_IsNumber(g) ==
    /\ g # <<>> /\ g[1] \in Digits
    /\ \A i \in DOMAIN g : g[i] \in Digits \cup {"."}
    /\ Cardinality({i \in DOMAIN g : g[i] = "."}) <= 1

\* The places <<i, p>> where a number l[i..p-1] is followed by '%' at p.
C21_Percents(l) ==
    {ip \in (DOMAIN l) \X (DOMAIN l) :
        ip[1] < ip[2] /\ l[ip[2]] = "%" /\ C21_IsNumber(SubSeq(l, ip[1], ip[2] - 1))}

\* The callbacks one line of output is to cause.
C21_Expected(raw) ==
    LET l == Strip(raw) IN
    IF l = <<>> THEN <<>>
    ELSE IF C21_Percents(l) = {}
    THEN <<[fn |-> "log", text |-> l]>>
    ELSE LET ip == CHOOSE x \in C21_Percents(l) : \A y \in C21_Percents(l) : x[1] <= y[1]
             v == Float(SubSeq(l, ip[1], ip[2] - 1))
         IN <<[fn |-> "update_progress", text |-> [num |-> v.num, exp |-> v.exp + 2]]>>

C21_Made ==
    [i \in DOMAIN callbacks |->
        [fn |-> callbacks[i].fn,
         text |-> IF callbacks[i].fn = "log" THEN callbacks[i].text ELSE callbacks[i].value]]

RECURSIVE C21_All(_)
C21_All(ls) == IF ls = <<>> THEN <<>> ELSE C21_Expected(Head(ls)) \o C21_All(Tail(ls))

\* C21: the lines read so far from the subprocesses have caused, in order,
\* exactly one callback each when not blank (update_progress with the number
\* before '%' divided by 100, else log with the line) and none when blank;
\* process.wait() returns only when the subprocess has exited, and files of
\* the input and output directories are only removed or moved after that.
C21_OneCallbackPerLineThenWait ==
    /\ [](C21_Made = C21_All(SubSeq(emitted, 1, Len(emitted) - Len(pipe))))
    /\ [][(phase = "wait" /\ phase' # "wait") => child = "exited"]_vars
    /\ [][((ccin \ ccin') # {} \/ (ccout \ ccout') # {}) =>
            (child = "exited" /\ pipe = <<>>)]_vars

C21_Witness ==
    /\ script = "post" /\ pc = "denoise_CC" /\ phase = "done"
    /\ emitted = <<<<>>, <<"5", ".", "5", "%">>>>
    /\ Len(callbacks) = 1 /\ callbacks[1].fn = "update_progress"
    /\ callbacks[1].value = [num |-> 55, exp |-> 3]
    /\ ccin = {} /\ ccout = {} /\ ToolOutput(M31) \in wd

----------------------------------------------------------------------------
(* Claims about the files of the working directory                         *)

C22_Images(dir) == {f \in dir : Last(f) \in {"fits", "fit", "fts", "fz"} /\ Len(f) >= 2}

\* C22: main_logic records the images present at the start and keeps the
\* record; multiprocess is the last stage function called, creates
\* processed_N for the smallest N >= 1 that does not exist, moves into it
\* exactly the images of the working directory that are not in the record,
\* and changes no other processed_k directory and no recorded image.
C22_MultiprocessMovesNewImages ==
    /\ [][(script = "proc" /\ pc = "setup" /\ pc' \notin {"setup", "error"}) =>
            originals' = C22_Images(wd)]_vars
    /\ [][(script = "proc" /\ pc \notin {"setup", "done", "dialog"}) =>
            originals' = originals]_vars
    /\ [][(script = "proc" /\ pc = "multiprocess" /\ pc' = "done") =>
            LET N == CHOOSE n \in 1..(Cardinality(DOMAIN pdirs) + 1) :
                        n \notin DOMAIN pdirs /\ \A j \in 1..(n - 1) : j \in DOMAIN pdirs
            IN /\ DOMAIN pdirs' = DOMAIN pdirs \cup {N}
               /\ \A k \in DOMAIN pdirs : pdirs'[k] = pdirs[k]
               /\ pdirs'[N] = C22_Images(wd) \ originals
               /\ wd' = wd \ pdirs'[N]
               /\ \A f \in originals : f \in wd => f \in wd'
               /\ Last(entries').st = "multiprocess"
               /\ log' = log]_vars
    /\ [](script = "proc" =>
            \A i \in DOMAIN entries :
                (entries[i].st = "multiprocess" /\ i < Len(entries)) =>
                    entries[i + 1].run > entries[i].run)

C22_Witness ==
    /\ script = "proc" /\ pc = "done" /\ run = 1
    /\ DOMAIN pdirs = {1, 2}
    /\ pdirs[1] = {<<"m31_b0", "5", "fit">>} /\ pdirs[2] = {<<"m31_b0", "5", "fit">>}
    /\ wd = {M31}

----------------------------------------------------------------------------
(* Claims about a host command that raises inside a stage                  *)

\* A command of a stage of the current run has raised.
C23_Failed ==
    \E i \in DOMAIN log : log[i].run = run /\ log[i].st # "setup" /\ log[i].verb = fault

\* C23: in GPS_Process and GPS_Preprocess, once a host command of a stage
\* has raised, that command is the last thing the run sends (no later
\* command, no executable, no second attempt), the error is printed and the
\* run is over; neither the failing stage nor anything after it removes or
\* renames a file the run had produced.
C23_FailedCommandEndsRun ==
    /\ []((script \in {"pre", "proc"} /\ C23_Failed) =>
            /\ Last(log).verb = fault /\ Last(log).run = run
            /\ Cardinality({i \in DOMAIN log : log[i].run = run /\ log[i].verb = fault}) = 1
            /\ pc = "error"
            /\ console # <<>> /\ Last(console) = ErrorReport)
    /\ [][(script \in {"pre", "proc"} /\ C23_Failed') =>
            /\ wd \subseteq wd'
            /\ \A w \in DOMAIN markers : markers[w] \subseteq markers'[w]
            /\ UNCHANGED <<frames, renames, pdirs>>]_vars

C23_Witness ==
    /\ script = "proc" /\ pc = "error" /\ fault = "rl"
    /\ Last(log).verb = "rl" /\ Last(log).st = "sharpen"
    /\ wd = {M31, <<"m31_b0", "5", "fit">>}
    /\ processed = {M31}

\* C24: in denoise_CC and sharpen_CC of GPS_Process, when the executable
\* has exited and its output directory is empty, the rest of the loop body
\* raises nothing and prints nothing, adds no file to the working directory
\* and records no image as processed, ends in the working directory, and
\* the loop goes on with the next listed image, which is the only file the
\* next run of the executable finds in the input directory.
C24_EmptyOutputIsSkipped ==
    /\ [][(script = "proc" /\ pc \in CCStages /\ phase = "wait" /\ phase' # "wait"
             /\ ccout = {}) =>
            /\ wd' = wd /\ processed' = processed
            /\ pc' = pc /\ console' = console
            /\ cwd' = "wd"
            /\ ccin' = {} /\ ccout' = {}
            /\ todo' = Tail(todo)
            /\ phase' = IF todo' # <<>> THEN "spawn" ELSE "done"]_vars
    /\ []((script = "proc" /\ pc \in CCStages /\ child = "running") =>
            ccin = {Head(todo)})

C24_Witness ==
    /\ script = "proc" /\ pc = "sharpen_CC" /\ phase = "done"
    /\ originals = {M31, <<"n", "fits">>}
    /\ wd = originals /\ processed = {}
    /\ todo = <<>> /\ cwd = "wd" /\ console = <<>>

----------------------------------------------------------------------------
(* Claims about the chain of derived files of GPS_Process                  *)

\* The stage functions called so far in the current run, in call order.
C25_Stages == SelectSeq(entries, LAMBDA e : e.run = run /\ e.st # "multiprocess")

C25_Of(e, verb) ==
    {log[i].arg : i \in {j \in DOMAIN log : /\ log[j].run = e.run /\ log[j].st = e.st
                                             /\ log[j].k = e.k /\ log[j].verb = verb}}

\* The files of the listing a stage call worked on: the images it loaded,
\* or the images it started the executable for (a compressed image under
\* the name it was listed with).
C25_Inputs(e) ==
    IF e.st \in CCStages \cup SAStages
    THEN {IF x \o <<"fz">> \in C25_Of(e, "load") THEN x \o <<"fz">> ELSE x :
            x \in C25_Of(e, "exec")}
    ELSE C25_Of(e, "load")

\* The derived files of a stage call.
C25_Outputs(e) ==
    IF e.st \in CCStages \cup SAStages
    THEN {NewImage(e.st, x, e.n) : x \in C25_Of(e, "exec")}
    ELSE {HostSave(a, compress) : a \in C25_Of(e, "save")}

C25_Before(j) == originals \cup UNION {C25_Outputs(C25_Stages[i]) : i \in 1..(j - 1)}

\* Every stage call so far has returned and has written one new file per
\* input; the derived files are still in the working directory.
C25_AllSucceeded ==
    /\ script = "proc"
    /\ phase = "call"
    /\ pc \notin {"setup", "dialog", "closed", "error", "exit"}
    /\ \A i \in DOMAIN entries : entries[i].run = run => entries[i].st # "multiprocess"
    /\ \A j \in DOMAIN C25_Stages :
          LET e == C25_Stages[j] IN
          /\ C25_Outputs(e) \subseteq wd
          /\ Cardinality(C25_Outputs(e)) = Cardinality(C25_Inputs(e))
          /\ C25_Outputs(e) \cap C25_Before(j) = {}

\* The uncompressed copies a Cosmic Clarity stage made of compressed inputs.
C25_Copies ==
    UNION {{x \in C25_Of(C25_Stages[j], "exec") : x \o <<"fz">> \in C25_Of(C25_Stages[j], "load")} :
             j \in DOMAIN C25_Stages}

C26_OriginalImagesKept ==
    (script = "proc" /\ pc \in {"done", "error", "exit"}) =>
        {f \in originals : IsImage(f)} \subseteq wd

\* The file a stage call writes for the listed image x.
C27_Out(e, x) ==
    IF e.st \in CCStages \cup SAStages
    THEN NewImage(e.st, IF e.st \in CCStages /\ Last(x) = "fz" THEN SplitExt0(x) ELSE x, e.n)
    ELSE HostSave(NewImage(e.st, x, e.n), compress)

\* C27: within one stage call of GPS_Process, two different images of the
\* working directory never get the same output file name.
C27_OutputsOfOneCallDiffer ==
    script = "proc" =>
        \A j \in DOMAIN C25_Stages :
            \A x, y \in C25_Inputs(C25_Stages[j]) :
                x # y => C27_Out(C25_Stages[j], x) # C27_Out(C25_Stages[j], y)

----------------------------------------------------------------------------
(* Claims about the current directory                                      *)

\* C28: in GPS_Process and GPS_Postprocess, whether -d is absolute or
\* relative to the launch directory, every stage function that is called
\* (the host raising nothing, the executable configured) gets to its file
\* loop with the requested working directory as current directory: the call
\* raises no error and the current directory is then the working directory.
C28_StagesRunInWorkdir ==
    [][(/\ script \in {"proc", "post"}
        /\ fault = "none"
        /\ Len(entries') > Len(entries)
        /\ Last(entries').st # "spcc"
        /\ pc' # "exit") =>
            /\ pc' \notin {"error", "crash"}
            /\ cwd' = "wd"]_vars

----------------------------------------------------------------------------
(* Claims about errors during the setup of GPS_Postprocess                 *)

\* C29: in GPS_Postprocess, when cd, set32bits or setext of the setup
\* raises, no stage runs afterwards: the run sends no command and starts no
\* executable outside the setup, and no directory changes.
C29_NoStageAfterFailedSetupCommand ==
    /\ []((script = "post" /\ fault \in {"cd", "set32bits", "setext"}) =>
            \A i \in DOMAIN log : log[i].run = run => log[i].st = "setup")
    /\ [][(script = "post" /\ fault \in {"cd", "set32bits", "setext"}) =>
            (UNCHANGED <<wd, ccin, ccout>>)]_vars

----------------------------------------------------------------------------
(* Claims about the message boxes of the dialog mode                       *)

\* C30: in the dialog mode of GPS_Process and GPS_Preprocess the box
\* "Processing finished." is shown for a run only when main_logic reached
\* the end of its try block, and never for a run that has shown the box
\* "An error occurred during processing.".
C30_SuccessBoxOnlyWithoutError ==
    \A i \in DOMAIN boxes :
        boxes[i].text = SuccessBox =>
            /\ boxes[i].run = run => pc = "done"
            /\ \A j \in DOMAIN boxes :
                  boxes[j].run = boxes[i].run => boxes[j].text # ErrorBox

====
